---- MODULE Spec2Model ----
(***************************************************************************)
(* Model of the attendance backend: the multi-factor verification engine   *)
(* (services/verification.py), the attendance ledger                       *)
(* (services/attendance.py, routers/attendance.py) and the per-request     *)
(* database session that carries their writes (database.py).               *)
(*                                                                         *)
(* Numbers.  Confidences are floats in the code; here the float x is the   *)
(* integer 1200 * x, written Hundredths(92) for 0.92: the grid holds the   *)
(* hundredths and the fractions 0.25 * matched_parts / len(expected_parts) *)
(* that validate_id_card adds for names of up to three parts.  The weights *)
(* are hundredths, so an overall confidence is the integer 120000 * x,     *)
(* written TenThousandths(6500) for 0.65.                                  *)
(***************************************************************************)
EXTENDS Integers, Sequences, FiniteSets, TLC

\* ------------------------------------------------------------------------
\* Bounds of the model
\* ------------------------------------------------------------------------

\* number of HTTP requests (each with its own database session) in one run
MaxRequests == 2

\* ------------------------------------------------------------------------
\* Program constants
\* ------------------------------------------------------------------------

\* the float n / 100 as a confidence
Hundredths(n) == 12 * n
\* the float n / 10000 as an overall confidence
TenThousandths(n) == 12 * n

\* Settings.min_face_confidence = 0.8
min_face_confidence == Hundredths(80)
\* VerificationService.face_weight = 0.5
face_weight == 50
\* VerificationService.id_weight = 0.3
id_weight == 30
\* VerificationService.fingerprint_weight = 0.2
fingerprint_weight == 20
\* fingerprint_confidence = 0.95 if fingerprint_match else 0.0
fingerprint_match_confidence == Hundredths(95)
\* the float 1.0, in ten-thousandths
ONE == TenThousandths(10000)

\* Python's None, for the Optional[str] fields
None == "None"

\* ------------------------------------------------------------------------
\* verification.py: the verification engine, a pure function
\* ------------------------------------------------------------------------

\* confidences a comparator may report, in hundredths
Confidences == { Hundredths(n) : n \in {0, 10, 79, 80, 92, 100} }

\* what a comparator returns: Tuple[bool, float]
Outcomes == [verified : BOOLEAN, confidence : Confidences]

\* The arguments of verify_student.  The three payloads and the two stored
\* templates are kept by their truthiness, which is all verify_student looks
\* at; face_out, id_out and fp_out are what verify_face, verify_id_card and
\* verify_fingerprint return for these payloads.
VerifyArgs ==
    [ stored_face_embedding   : BOOLEAN,
      stored_fingerprint_hash : BOOLEAN,
      face_image_base64       : BOOLEAN,
      id_card_image_base64    : BOOLEAN,
      fingerprint_token       : BOOLEAN,
      face_out                : Outcomes,
      id_out                  : Outcomes,
      fp_out                  : BOOLEAN ]

Min(a, b) == IF a <= b THEN a ELSE b

\* "+".join(xs) and ", ".join(xs)
RECURSIVE Join(_, _)
Join(xs, sep) ==
    IF xs = <<>> THEN ""
    ELSE IF Len(xs) = 1 THEN xs[1]
    ELSE xs[1] \o sep \o Join(Tail(xs), sep)

\* f"{passed}" for the counts the two-factor tier can print
Digit(n) == CASE n = 0 -> "0" [] n = 1 -> "1" [] n = 2 -> "2" [] OTHER -> "?"

\* VerificationResult(success=False): the dataclass defaults
DefaultResult ==
    [ success              |-> FALSE,
      face_verified        |-> FALSE,
      face_confidence      |-> 0,
      id_card_verified     |-> FALSE,
      id_card_confidence   |-> 0,
      fingerprint_verified |-> FALSE,
      overall_confidence   |-> 0,
      verification_method  |-> "",
      message              |-> "",
      anomaly_detected     |-> FALSE,
      anomaly_reason       |-> None ]

\* calculate_overall_confidence adding the confidences without their weights
calculate_overall_confidence_Unweighted(face_confidence, id_confidence, fingerprint_match) ==
    LET fingerprint_confidence ==
            IF fingerprint_match THEN fingerprint_match_confidence ELSE 0
    IN  (face_confidence + id_confidence + fingerprint_confidence) * 100

\* calculate_overall_confidence taking a matched fingerprint as confidence 1.0
calculate_overall_confidence_FullFingerprint(face_confidence, id_confidence, fingerprint_match) ==
    LET fingerprint_confidence == IF fingerprint_match THEN Hundredths(100) ELSE 0
        overall == face_confidence * face_weight
                   + id_confidence * id_weight
                   + fingerprint_confidence * fingerprint_weight
    IN  Min(overall, ONE)

\* calculate_overall_confidence
calculate_overall_confidence(face_confidence, id_confidence, fingerprint_match) ==
    LET fingerprint_confidence ==
            IF fingerprint_match THEN fingerprint_match_confidence ELSE 0
        overall == face_confidence * face_weight
                   + id_confidence * id_weight
                   + fingerprint_confidence * fingerprint_weight
    IN  Min(overall, ONE)

\* the face factor run for every face image, stored embedding or not
FaceRuns_IgnoresTemplate(a) == a.face_image_base64

\* which factors verify_student runs, in the order it runs them
FaceRuns(a) == a.face_image_base64 /\ a.stored_face_embedding

\* the document factor guarded like the other two, by a stored template
IdRuns_NeedsStoredTemplate(a) == a.id_card_image_base64 /\ a.stored_face_embedding

\* the document is compared with the roll number and the name
IdRuns(a)   == a.id_card_image_base64
FpRuns(a)   == a.fingerprint_token /\ a.stored_fingerprint_hash

\* the comparators verify_student calls: verify_face, verify_id_card and
\* verify_fingerprint, each inside the "if" that runs its factor
ComparatorsInvoked(a) ==
    {m \in {"face"} : FaceRuns(a)}
    \cup {m \in {"id_card"} : IdRuns(a)}
    \cup {m \in {"fingerprint"} : FpRuns(a)}

\* the method list with the fingerprint appended before the document
verification_methods_FingerprintSecond(a) ==
    (IF FaceRuns(a) THEN <<"face">> ELSE <<>>)
    \o (IF FpRuns(a) THEN <<"fingerprint">> ELSE <<>>)
    \o (IF IdRuns(a) THEN <<"id_card">> ELSE <<>>)

\* the verification_methods list verify_student builds
verification_methods(a) ==
    (IF FaceRuns(a) THEN <<"face">> ELSE <<>>)
    \o (IF IdRuns(a) THEN <<"id_card">> ELSE <<>>)
    \o (IF FpRuns(a) THEN <<"fingerprint">> ELSE <<>>)

\* the "failed" list with the fingerprint reported before the document
FailedList_FingerprintFirst(face_verified, id_verified, fingerprint_verified) ==
    (IF ~face_verified THEN <<"face">> ELSE <<>>)
    \o (IF ~fingerprint_verified THEN <<"fingerprint">> ELSE <<>>)
    \o (IF ~id_verified THEN <<"id_card">> ELSE <<>>)

\* the "failed" list of the three-factor tier
FailedList(face_verified, id_verified, fingerprint_verified) ==
    (IF ~face_verified THEN <<"face">> ELSE <<>>)
    \o (IF ~id_verified THEN <<"id_card">> ELSE <<>>)
    \o (IF ~fingerprint_verified THEN <<"fingerprint">> ELSE <<>>)

\* the single-factor tier's success without the minimum face confidence
SingleFactorSuccess_NoThreshold(methods, face_verified, face_confidence, id_verified, fingerprint_verified) ==
    IF methods[1] = "face" THEN face_verified
    ELSE IF methods[1] = "id_card" THEN id_verified
    ELSE fingerprint_verified

\* the single-factor tier's success
SingleFactorSuccess(methods, face_verified, face_confidence, id_verified, fingerprint_verified) ==
    IF methods[1] = "face"
    THEN face_verified /\ face_confidence >= min_face_confidence
    ELSE IF methods[1] = "id_card" THEN id_verified
    ELSE fingerprint_verified

\* the two-factor tier counting a factor that ran as a factor that passed
PassedCount_CountsRuns(methods, face_verified, id_verified, fingerprint_verified) ==
    Cardinality({ i \in 1..Len(methods) :
                    \/ methods[i] = "face"
                    \/ methods[i] = "id_card" /\ id_verified
                    \/ methods[i] = "fingerprint" /\ fingerprint_verified })

\* the two-factor tier's count of passed factors
PassedCount(methods, face_verified, id_verified, fingerprint_verified) ==
    Cardinality({ i \in 1..Len(methods) :
                    \/ methods[i] = "face" /\ face_verified
                    \/ methods[i] = "id_card" /\ id_verified
                    \/ methods[i] = "fingerprint" /\ fingerprint_verified })

\* the no-factor tier that forgets to flag the anomaly
NoFactorTier_NoAnomaly(base) ==
    [ base EXCEPT
        !.success = FALSE,
        !.message = "No verification data provided" ]

\* verify_student, the tier "if not verification_methods"
NoFactorTier(base) ==
    [ base EXCEPT
        !.success          = FALSE,
        !.message          = "No verification data provided",
        !.anomaly_detected = TRUE,
        !.anomaly_reason   = "No biometric data provided for verification" ]

\* the single-factor tier that flags a failure without giving its reason
SingleFactorTier_NoReason(base, methods) ==
    LET ok == SingleFactorSuccess(methods, base.face_verified, base.face_confidence,
                                  base.id_card_verified, base.fingerprint_verified)
    IN  [ base EXCEPT
            !.success          = ok,
            !.anomaly_detected = ~ok,
            !.message = "Single factor (" \o methods[1] \o ") verification" ]

\* verify_student, the tier "elif len(verification_methods) == 1"
SingleFactorTier(base, methods) ==
    LET ok == SingleFactorSuccess(methods, base.face_verified, base.face_confidence,
                                  base.id_card_verified, base.fingerprint_verified)
    IN  [ base EXCEPT
            !.success          = ok,
            !.anomaly_detected = ~ok,
            !.anomaly_reason   =
                IF ~ok
                THEN "Single factor verification failed: " \o methods[1]
                ELSE None,
            !.message = "Single factor (" \o methods[1] \o ") verification" ]

\* the two-factor tier holding a verified face to the minimum confidence
TwoFactorTier_FaceNeedsThreshold(base, methods) ==
    LET passed == PassedCount(methods,
                              base.face_verified
                                  /\ base.face_confidence >= min_face_confidence,
                              base.id_card_verified, base.fingerprint_verified)
        ok     == passed = 2
    IN  [ base EXCEPT
            !.success          = ok,
            !.anomaly_detected = ~ok,
            !.anomaly_reason   =
                IF ~ok
                THEN "Two-factor verification failed: only "
                     \o Digit(passed) \o "/2 passed"
                ELSE None,
            !.message = "Two-factor verification: "
                        \o Digit(passed) \o "/2 passed" ]

\* verify_student, the tier "elif len(verification_methods) == 2"
TwoFactorTier(base, methods) ==
    LET passed == PassedCount(methods, base.face_verified, base.id_card_verified,
                              base.fingerprint_verified)
        ok     == passed = 2
    IN  [ base EXCEPT
            !.success          = ok,
            !.anomaly_detected = ~ok,
            !.anomaly_reason   =
                IF ~ok
                THEN "Two-factor verification failed: only "
                     \o Digit(passed) \o "/2 passed"
                ELSE None,
            !.message = "Two-factor verification: "
                        \o Digit(passed) \o "/2 passed" ]

\* verify_student, the tier "else" (three factors)
ThreeFactorTier(base) ==
    LET all_passed == /\ base.face_verified
                      /\ base.id_card_verified
                      /\ base.fingerprint_verified
    IN  [ base EXCEPT
            !.success          = all_passed,
            !.anomaly_detected = ~all_passed,
            !.anomaly_reason   =
                IF ~all_passed
                THEN "Multi-factor verification failed: "
                     \o Join(FailedList(base.face_verified, base.id_card_verified,
                                        base.fingerprint_verified), ", ")
                ELSE None,
            !.message = "Three-factor verification"
                        \o (IF all_passed THEN " passed" ELSE " failed") ]

\* verify_student
verify_student(a) ==
    LET methods              == verification_methods(a)
        face_verified        == IF FaceRuns(a) THEN a.face_out.verified ELSE FALSE
        face_confidence      == IF FaceRuns(a) THEN a.face_out.confidence ELSE 0
        id_verified          == IF IdRuns(a) THEN a.id_out.verified ELSE FALSE
        id_confidence        == IF IdRuns(a) THEN a.id_out.confidence ELSE 0
        fingerprint_verified == IF FpRuns(a) THEN a.fp_out ELSE FALSE
        base == [ DefaultResult EXCEPT
                    !.face_verified        = face_verified,
                    !.face_confidence      = face_confidence,
                    !.id_card_verified     = id_verified,
                    !.id_card_confidence   = id_confidence,
                    !.fingerprint_verified = fingerprint_verified,
                    !.overall_confidence   =
                        calculate_overall_confidence(face_confidence, id_confidence,
                                                     fingerprint_verified),
                    !.verification_method  =
                        IF methods # <<>> THEN Join(methods, "+") ELSE "none" ]
    IN  IF methods = <<>> THEN NoFactorTier(base)
        ELSE IF Len(methods) = 1 THEN SingleFactorTier(base, methods)
        ELSE IF Len(methods) = 2 THEN TwoFactorTier(base, methods)
        ELSE ThreeFactorTier(base)

\* ------------------------------------------------------------------------
\* ml/: the comparators, on payloads described by what the libraries make
\* of them
\* ------------------------------------------------------------------------

face_recognition_tolerance == Hundredths(60)
simulated_match_threshold == Hundredths(80)
id_min_confidence == Hundredths(70)

\* why a payload cannot be compared: it does not decode (decode_base64_image
\* returns None) or the comparator raises inside its try block
Faults == {"none", "undecodable", "error"}

\* what a comparator answers when it cannot compare
NoMatch == [verified |-> FALSE, confidence |-> 0]

\* what a face comparison may read: a distance or a random confidence
Readings == { Hundredths(n) : n \in {10, 60, 61, 70, 81} }

\* A face image: whether the face_recognition library is installed, whether
\* it finds a face, and its reading: the distance to the stored embedding
\* with the library, the random confidence drawn without it.
FaceSamples ==
    { f \in [ supplied   : BOOLEAN,
              fault      : Faults,
              library    : BOOLEAN,
              face_found : BOOLEAN,
              reading    : Readings ] :
        /\ ~f.supplied => f.fault = "none"
        /\ (~f.supplied \/ f.fault # "none") =>
                f.library /\ ~f.face_found /\ f.reading = Hundredths(61)
        /\ ~f.library => f.face_found /\ f.reading \in {Hundredths(70), Hundredths(81)}
        /\ (f.library /\ f.face_found) => f.reading \in {Hundredths(10), Hundredths(60), Hundredths(61)}
        /\ (f.library /\ ~f.face_found) => f.reading = Hundredths(61) }

\* An id-card image: what OCR reads of the roll number, whether it reads a
\* name, and how many of the parts of the expected name (its split()) are
\* found in the name read.  An expected name with no part has all of its
\* parts matched.
IdCardSamples ==
    { c \in [ supplied       : BOOLEAN,
              fault          : {"none", "undecodable"},
              roll_no        : {"exact", "partial", "none"},
              name_read      : BOOLEAN,
              matched_parts  : 0..3,
              expected_parts : 0..3 ] :
        /\ ~c.supplied => c.fault = "none"
        /\ c.matched_parts <= c.expected_parts
        /\ (~c.supplied \/ c.fault # "none") =>
                c.roll_no = "none" /\ ~c.name_read
        /\ ~c.name_read => c.matched_parts = 0 /\ c.expected_parts = 1 }

\* A fingerprint token: whether it hashes to the stored hash
FingerprintSamples ==
    { t \in [ supplied : BOOLEAN,
              fault    : {"none", "error"},
              matches  : BOOLEAN ] :
        /\ ~t.supplied => t.fault = "none"
        /\ (~t.supplied \/ t.fault # "none") => ~t.matches }

\* compare_faces
compare_faces(f) ==
    IF ~f.library
    THEN [ verified   |-> f.reading > simulated_match_threshold,
           confidence |-> f.reading ]
    ELSE IF ~f.face_found THEN NoMatch
    ELSE [ verified   |-> f.reading <= face_recognition_tolerance,
           confidence |-> Hundredths(100) - f.reading ]

\* compare_faces_from_base64
compare_faces_from_base64(f) ==
    IF f.fault # "none" THEN NoMatch ELSE compare_faces(f)

\* validate_id_card, as verify_id_card passes it on
validate_id_card(c) ==
    IF c.fault # "none" THEN NoMatch
    ELSE LET roll == CASE c.roll_no = "exact"   -> Hundredths(50)
                       [] c.roll_no = "partial" -> Hundredths(25)
                       [] OTHER                 -> 0
             name == IF ~c.name_read THEN 0
                     ELSE IF c.matched_parts = c.expected_parts
                     THEN Hundredths(50)
                     ELSE IF c.matched_parts > 0
                     THEN (Hundredths(25) * c.matched_parts)
                              \div c.expected_parts
                     ELSE 0
             confidence == roll + name
         IN  [ verified   |-> confidence >= id_min_confidence,
               confidence |-> confidence ]

\* FingerprintService.verify_fingerprint
verify_fingerprint(t) ==
    IF t.fault # "none" THEN NoMatch
    ELSE [ verified   |-> t.matches,
           confidence |-> IF t.matches THEN fingerprint_match_confidence ELSE 0 ]

\* the payloads of one attempt
Payloads ==
    [ face : FaceSamples, id_card : IdCardSamples, fingerprint : FingerprintSamples ]

NoPayloads ==
    [ face        |-> [ supplied |-> FALSE, fault |-> "none", library |-> TRUE,
                        face_found |-> FALSE, reading |-> Hundredths(61) ],
      id_card     |-> [ supplied |-> FALSE, fault |-> "none", roll_no |-> "none",
                        name_read |-> FALSE, matched_parts |-> 0,
                        expected_parts |-> 1 ],
      fingerprint |-> [ supplied |-> FALSE, fault |-> "none", matches |-> FALSE ] ]

\* the verify_student call for a student's templates and an attempt's
\* payloads, with what the comparators answer for them
VerifyArgsOfPayloads(student, p) ==
    [ stored_face_embedding   |-> student.face_embedding,
      stored_fingerprint_hash |-> student.fingerprint_hash,
      face_image_base64       |-> p.face.supplied,
      id_card_image_base64    |-> p.id_card.supplied,
      fingerprint_token       |-> p.fingerprint.supplied,
      face_out                |-> compare_faces_from_base64(p.face),
      id_out                  |-> validate_id_card(p.id_card),
      fp_out                  |-> verify_fingerprint(p.fingerprint).verified ]

\* ------------------------------------------------------------------------
\* models/: the rows of the database
\* ------------------------------------------------------------------------

\* AttendanceStatus
AttendanceStatus == {"present", "absent", "late", "excused"}

\* The students table when the service starts: 1 has a face embedding and a
\* fingerprint hash, 2 a face embedding only, 3 has no template and is not
\* enrolled.  No student 4 exists.
SeedStudents ==
    [ i \in {1, 2, 3} |->
        [ id               |-> i,
          face_embedding   |-> i \in {1, 2},
          fingerprint_hash |-> i = 1,
          is_enrolled      |-> i \in {1, 2} ] ]

\* a students row together with its id_card_data column, which
\* enroll_id_card fills and which is TRUE here when it is not NULL
StudentRow(student, id_card_data) ==
    [ id               |-> student.id,
      face_embedding   |-> student.face_embedding,
      fingerprint_hash |-> student.fingerprint_hash,
      id_card_data     |-> id_card_data,
      is_enrolled      |-> student.is_enrolled ]

\* every combination of enrolled templates a student can have
StudentTemplates ==
    { StudentRow([ id |-> 1, face_embedding |-> f, fingerprint_hash |-> p,
                   is_enrolled |-> f \/ p ], d) : f, p, d \in BOOLEAN }

\* the clock reading when the service starts, in minutes
Epoch == 60

\* The sessions table when the service starts: 1 is open for marking, 2 is
\* not.  No session 3 exists.  Both are held on the same day from 09:00 to
\* 10:00 in room A1 of the
\* building Main.
SeedSessions ==
    [ i \in {1, 2} |-> [ id |-> i, is_active |-> i = 1,
                         session_date |-> "2026-01-15",
                         start_time |-> "09:00", end_time |-> "10:00",
                         room_no |-> "A1", building |-> "Main",
                         updated_at |-> Epoch - 15 ] ]

\* NULL in the Optional[float] columns face_confidence and id_card_confidence
NullFloat == -1

\* An attendances row the database may already hold when the service starts
SeedAttendance ==
    [ id                  |-> 1,
      student_id          |-> 2,
      session_id          |-> 1,
      status              |-> "present",
      face_confidence     |-> Hundredths(92),
      id_card_confidence  |-> NullFloat,
      fingerprint_match   |-> FALSE,
      overall_confidence  |-> TenThousandths(4600),
      verification_method |-> "face",
      updated_at          |-> Epoch - 15 ]

\* the attendances table without its unique constraint
unique_student_session_Dropped(row1, row2) == FALSE

\* UniqueConstraint("student_id", "session_id"): TRUE when the two rows may
\* not both be in the table
unique_student_session(row1, row2) ==
    /\ row1.student_id = row2.student_id
    /\ row1.session_id = row2.session_id

\* ------------------------------------------------------------------------
\* Requests
\* ------------------------------------------------------------------------

Requests == 1..MaxRequests

\* the biometric part of an AttendanceMarkRequest, with what the comparators
\* answer for its payloads
NoFactors ==
    [ face_image        |-> FALSE,
      id_card_image     |-> FALSE,
      fingerprint_token |-> FALSE,
      face_out          |-> [verified |-> FALSE, confidence |-> 0],
      id_out            |-> [verified |-> FALSE, confidence |-> 0],
      fp_out            |-> FALSE ]

\* a face image that matches the stored embedding with confidence 0.92
FaceOnly ==
    [ NoFactors EXCEPT !.face_image = TRUE,
                       !.face_out = [verified |-> TRUE, confidence |-> Hundredths(92)] ]

\* the same face image with a fingerprint token that does not match
FaceAndWrongFingerprint ==
    [ FaceOnly EXCEPT !.fingerprint_token = TRUE ]

\* an id-card image on which the roll number and the name are read
DocumentOnly ==
    [ NoFactors EXCEPT !.id_card_image = TRUE,
                       !.id_out = [verified |-> TRUE, confidence |-> Hundredths(100)] ]

Factors == {NoFactors, FaceOnly, FaceAndWrongFingerprint}

\* POST /attendance/mark.  A part of the request that mark_attendance returns
\* without reading (the session of an unknown student, the templates of the
\* student who names an unknown session, the payloads sent for
\* an unknown or closed session or for a student that is not enrolled) is
\* left at one value, or at two where a payload is sent to see that it is
\* not read: it cannot change the outcome.
MarkRequests ==
    { q \in [ kind          : {"mark"},
              student_id    : {1, 2, 3, 4},
              session_id    : {1, 2, 3},
              factors       : Factors \cup {DocumentOnly},
              attendance_id : {0},
              status        : {"present"} ] :
        /\ q.student_id \notin DOMAIN SeedStudents => q.session_id = 1
        /\ q.session_id \notin DOMAIN SeedSessions => q.student_id = 1
        /\ IF \/ q.student_id \notin DOMAIN SeedStudents
              \/ q.session_id \notin DOMAIN SeedSessions
           THEN q.factors = NoFactors
           ELSE IF ~SeedSessions[q.session_id].is_active
           THEN q.factors \in {NoFactors} \cup {f \in {FaceOnly} : q.student_id = 1}
           ELSE IF ~SeedStudents[q.student_id].is_enrolled
           THEN q.factors \in {NoFactors, DocumentOnly}
           ELSE q.factors \in Factors }

\* PATCH /attendance/{attendance_id}/status.  No row 2 is ever visible to the
\* handler, so the status sent for it is left at one value.  For row 1 the
\* status it has and two of the others are sent: the handler assigns
\* whichever it is given.
UpdateRequests ==
    { q \in [ kind          : {"update"},
              student_id    : {0},
              session_id    : {0},
              factors       : {NoFactors},
              attendance_id : {1, 2},
              status        : AttendanceStatus \ {"excused"} ] :
        q.attendance_id # SeedAttendance.id => q.status = "absent" }

NoRequest ==
    [ kind          |-> "none",
      student_id    |-> 0,
      session_id    |-> 0,
      factors       |-> NoFactors,
      attendance_id |-> 0,
      status        |-> "present" ]

\* a database session with nothing flushed: async_session_maker().  It
\* collects the attendances and anomaly_logs rows the session inserts, the
\* status it gives to attendances rows, and what it writes to the rows of
\* the other tables (RowWrite below).
EmptyTx ==
    [ attendances    |-> {},
      anomaly_logs   |-> {},
      status_updates |-> {},
      row_writes     |-> {} ]

\* the handler's local variables, and the comparators it has invoked
NoLocals ==
    [ student    |-> [ id |-> 0, face_embedding |-> FALSE,
                       fingerprint_hash |-> FALSE, is_enrolled |-> FALSE ],
      attendance |-> 0,
      invoked    |-> {} ]

\* what the handler answers: the AttendanceVerificationResult, the id of the
\* Attendance row it returns with it (0 for None) and the exception it
\* raised, if any
NoResponse ==
    [ result     |-> DefaultResult,
      attendance |-> 0,
      exception  |-> None ]

\* ------------------------------------------------------------------------
\* State
\* ------------------------------------------------------------------------

VARIABLES
    vargs,      \* the arguments of the verify_student call under test
    vdone,      \* TRUE once verify_student has returned
    vresult,    \* the VerificationResult it returned
    vstudent,   \* the student row whose templates the call was given
    vinvoked,   \* the comparators the call invoked
    vpayloads,  \* the payloads the call's comparators were given
    now,        \* datetime.utcnow(), in minutes
    cargs,      \* the arguments of the anomaly-service call under test
    cdone,      \* TRUE once that call has returned
    cresult,    \* what it returned
    students,       \* committed rows of the students table, by id
    sessions,       \* committed rows of the sessions table, by id
    attendances,    \* committed rows of the attendances table
    anomaly_logs,   \* committed rows of the anomaly_logs table
    next_attendance_id, \* the attendances id sequence
    next_anomaly_id,    \* the anomaly_logs id sequence
    tx,         \* per request: the uncommitted work of its database session
    pc,         \* per request: where its handler stands
    req,        \* per request: the request
    loc,        \* per request: the handler's local variables
    resp,       \* per request: the response
    prior,      \* per request: the requests answered before it arrived
    raced       \* per request: the requests it raced with between the
                \* existing-record check and the insert

vvars == <<vargs, vdone, vresult, vstudent, vinvoked, vpayloads>>
cvars == <<now, cargs, cdone, cresult>>
dbvars == <<students, sessions, attendances, anomaly_logs,
            next_attendance_id, next_anomaly_id, tx>>
reqvars == <<pc, req, loc, resp, prior, raced>>
vars == <<vvars, cvars, dbvars, reqvars>>

\* ------------------------------------------------------------------------
\* database.py: what a request's database session sees and may write
\* ------------------------------------------------------------------------

\* a request whose database session is open
Live(r) == pc[r] \notin {"idle", "closed"}

\* the row as r sees it had the update cleared how it was verified as well
RowAsSeenBy_ResetsMethod(r, row) ==
    IF \E u \in tx[r].status_updates : u.id = row.id
    THEN LET u == CHOOSE x \in tx[r].status_updates : x.id = row.id
         IN  [row EXCEPT !.status = u.status, !.updated_at = u.updated_at,
                         !.verification_method = "manual"]
    ELSE row

\* an attendances row as request r reads it: with the status and the
\* updated_at of r's own flushed UPDATE
RowAsSeenBy(r, row) ==
    IF \E u \in tx[r].status_updates : u.id = row.id
    THEN LET u == CHOOSE x \in tx[r].status_updates : x.id = row.id
         IN  [row EXCEPT !.status = u.status, !.updated_at = u.updated_at]
    ELSE row

\* select(Attendance) in the session of request r: the committed rows and
\* the rows r has flushed itself
VisibleAttendances(r) ==
    { RowAsSeenBy(r, row) : row \in attendances } \cup tx[r].attendances

\* the rows other open sessions have flushed and not committed
PendingElsewhere(r) ==
    UNION { tx[o].attendances : o \in { x \in Requests : x # r /\ Live(x) } }

\* An INSERT, UPDATE or DELETE a session has flushed on the row of that id
\* in the students, sessions or anomaly_logs table: the row as the session
\* now reads it, or that it is gone
RowWrite(table, id, deleted, row) ==
    [ table |-> table, id |-> id, deleted |-> deleted, row |-> row ]

\* what request r has flushed on one table
WritesOf(r, table) == { w \in tx[r].row_writes : w.table = table }

\* another open session holds the lock an uncommitted UPDATE or DELETE takes
\* on that row (FOR NO KEY UPDATE, FOR UPDATE)
WrittenElsewhere(r, table, id) ==
    \E o \in Requests \ {r} :
        Live(o) /\ \E w \in WritesOf(o, table) : w.id = id

\* another open session holds an uncommitted DELETE of that row, for which
\* the foreign-key check of an INSERT (FOR KEY SHARE) waits
DeletedElsewhere(r, table, id) ==
    \E o \in Requests \ {r} :
        Live(o) /\ \E w \in WritesOf(o, table) : w.id = id /\ w.deleted

\* another open session has inserted an attendances or anomaly_logs row that
\* refers to that student or session, and so holds FOR KEY SHARE on it
ReferredToElsewhere(r, table, id) ==
    \E o \in Requests \ {r} :
        /\ Live(o)
        /\ \E a \in tx[o].attendances \cup tx[o].anomaly_logs :
                IF table = "students" THEN a.student_id = id
                ELSE a.session_id = id

\* get_db leaving its "async with": the session is closed without a commit,
\* which discards everything it flushed
CloseSession(r) == [tx EXCEPT ![r] = EmptyTx]

\* ------------------------------------------------------------------------
\* services/attendance.py
\* ------------------------------------------------------------------------

\* check_existing_attendance selecting on a key that matches no row
check_existing_attendance_FindsNothing(r, student_id, session_id) == {}

\* check_existing_attendance
check_existing_attendance(r, student_id, session_id) ==
    { row \in VisibleAttendances(r) :
        row.student_id = student_id /\ row.session_id = session_id }

\* the early returns of mark_attendance: None, AttendanceVerificationResult(
\* success=False, message=...)
Rejection(message) ==
    [ NoResponse EXCEPT !.result = [DefaultResult EXCEPT !.message = message] ]

\* the Attendance(...) row built without the result's confidence breakdown
NewAttendance_NoBreakdown(id, student_id, session_id, vr) ==
    [ id                  |-> id,
      student_id          |-> student_id,
      session_id          |-> session_id,
      status              |-> "present",
      face_confidence     |-> NullFloat,
      id_card_confidence  |-> NullFloat,
      fingerprint_match   |-> FALSE,
      overall_confidence  |-> 0,
      verification_method |-> vr.verification_method ]

\* the Attendance(...) row mark_attendance builds from a VerificationResult
NewAttendance(id, student_id, session_id, vr) ==
    [ id                  |-> id,
      student_id          |-> student_id,
      session_id          |-> session_id,
      status              |-> "present",
      face_confidence     |-> IF vr.face_verified THEN vr.face_confidence
                              ELSE NullFloat,
      id_card_confidence  |-> IF vr.id_card_verified THEN vr.id_card_confidence
                              ELSE NullFloat,
      fingerprint_match   |-> vr.fingerprint_verified,
      overall_confidence  |-> vr.overall_confidence,
      verification_method |-> vr.verification_method,
      updated_at          |-> now ]

\* the AnomalyLog(...) row of _log_anomaly, severity defaulted to "medium"
NewAnomaly(id, student_id, session_id, anomaly_type, reason) ==
    [ id           |-> id,
      student_id   |-> student_id,
      session_id   |-> session_id,
      anomaly_type |-> anomaly_type,
      severity     |-> "medium",
      reason       |-> reason,
      attempt_time |-> now,
      is_resolved  |-> FALSE,
      updated_at   |-> now ]

\* the arguments mark_attendance passes to verify_student
VerifyArgsOf(student, f) ==
    [ stored_face_embedding   |-> student.face_embedding,
      stored_fingerprint_hash |-> student.fingerprint_hash,
      face_image_base64       |-> f.face_image,
      id_card_image_base64    |-> f.id_card_image,
      fingerprint_token       |-> f.fingerprint_token,
      face_out                |-> f.face_out,
      id_out                  |-> f.id_out,
      fp_out                  |-> f.fp_out ]

\* the requests are numbered in the order they arrive
NextSlot(r) ==
    /\ pc[r] = "idle"
    /\ \A p \in Requests : p < r => pc[p] # "idle"

\* a request arrives: POST /attendance/mark
StartMark(r) ==
    /\ NextSlot(r)
    /\ \E q \in MarkRequests : req' = [req EXCEPT ![r] = q]
    /\ pc' = [pc EXCEPT ![r] = "get_student"]
    /\ prior' = [prior EXCEPT ![r] = { p \in Requests : pc[p] = "closed" }]
    /\ UNCHANGED <<vvars, cvars, dbvars, loc, resp, raced>>

\* mark_attendance: get_student and the "Student not found" return
MarkGetStudent(r) ==
    /\ pc[r] = "get_student"
    /\ IF req[r].student_id \notin DOMAIN students
       THEN /\ resp' = [resp EXCEPT ![r] = Rejection("Student not found")]
            /\ pc' = [pc EXCEPT ![r] = "return"]
            /\ UNCHANGED loc
       ELSE /\ loc' = [loc EXCEPT ![r].student = students[req[r].student_id]]
            /\ pc' = [pc EXCEPT ![r] = "get_session"]
            /\ UNCHANGED resp
    /\ UNCHANGED <<vvars, cvars, dbvars, req, prior, raced>>

\* mark_attendance looking up the session without the is_active check
MarkGetSession_SkipsActiveCheck(r) ==
    /\ pc[r] = "get_session"
    /\ IF req[r].session_id \notin DOMAIN sessions
       THEN /\ resp' = [resp EXCEPT ![r] = Rejection("Session not found")]
            /\ pc' = [pc EXCEPT ![r] = "return"]
       ELSE /\ pc' = [pc EXCEPT ![r] = "check_existing"]
            /\ UNCHANGED resp
    /\ UNCHANGED <<vvars, cvars, dbvars, req, loc, prior, raced>>

\* mark_attendance: get_session, the "Session not found" return and the
\* is_active check
MarkGetSession(r) ==
    /\ pc[r] = "get_session"
    /\ IF req[r].session_id \notin DOMAIN sessions
       THEN /\ resp' = [resp EXCEPT ![r] = Rejection("Session not found")]
            /\ pc' = [pc EXCEPT ![r] = "return"]
       ELSE IF ~sessions[req[r].session_id].is_active
       THEN /\ resp' = [resp EXCEPT ![r] =
                    Rejection("Session is not active for attendance marking")]
            /\ pc' = [pc EXCEPT ![r] = "return"]
       ELSE /\ pc' = [pc EXCEPT ![r] = "check_existing"]
            /\ UNCHANGED resp
    /\ UNCHANGED <<vvars, cvars, dbvars, req, loc, prior, raced>>

\* the requests for the same pair that have passed the existing-record check
\* with a successful verification and have not inserted yet
AboutToInsert(r) ==
    { o \in Requests \ {r} :
        /\ pc[o] = "insert"
        /\ req[o].student_id = req[r].student_id
        /\ req[o].session_id = req[r].session_id }

\* mark_attendance: check_existing_attendance, the is_enrolled check and
\* verify_student, which runs without awaiting
MarkCheckExisting(r) ==
    /\ pc[r] = "check_existing"
    /\ LET existing == check_existing_attendance(r, req[r].student_id,
                                                 req[r].session_id)
           args == VerifyArgsOf(loc[r].student, req[r].factors)
           vr == verify_student(args)
       IN  IF existing # {}
           THEN /\ resp' = [resp EXCEPT ![r] =
                        Rejection("Attendance already marked for this session")]
                /\ pc' = [pc EXCEPT ![r] = "return"]
                /\ UNCHANGED <<loc, raced>>
           ELSE IF ~loc[r].student.is_enrolled
           THEN /\ resp' = [resp EXCEPT ![r] = Rejection(
                        "Student biometrics not enrolled. Please complete enrollment first.")]
                /\ pc' = [pc EXCEPT ![r] = "return"]
                /\ UNCHANGED <<loc, raced>>
           ELSE /\ resp' = [resp EXCEPT ![r].result = vr]
                /\ loc' = [loc EXCEPT ![r].invoked = ComparatorsInvoked(args)]
                /\ pc' = [pc EXCEPT ![r] =
                        IF vr.anomaly_detected THEN "log_anomaly"
                        ELSE IF vr.success THEN "insert"
                        ELSE "return"]
                /\ raced' = IF ~vr.anomaly_detected /\ vr.success
                            THEN [o \in Requests |->
                                    IF o = r THEN AboutToInsert(r)
                                    ELSE IF o \in AboutToInsert(r)
                                    THEN raced[o] \cup {r}
                                    ELSE raced[o]]
                            ELSE raced
    /\ UNCHANGED <<vvars, cvars, dbvars, req, prior>>

\* mark_attendance logging the anomaly twice
MarkLogAnomaly_LogsTwice(r) ==
    /\ pc[r] = "log_anomaly"
    /\ ~DeletedElsewhere(r, "students", loc[r].student.id)
    /\ ~DeletedElsewhere(r, "sessions", req[r].session_id)
    /\ tx' = [tx EXCEPT ![r].anomaly_logs = @ \cup
                { NewAnomaly(i, loc[r].student.id, req[r].session_id,
                             "verification_failed", "Verification failed") :
                  i \in {next_anomaly_id, next_anomaly_id + 1} }]
    /\ next_anomaly_id' = next_anomaly_id + 2
    /\ pc' = [pc EXCEPT ![r] =
                IF resp[r].result.success THEN "insert" ELSE "return"]
    /\ UNCHANGED <<vvars, cvars, students, sessions, attendances, anomaly_logs,
                   next_attendance_id, req, loc, resp, prior, raced>>

\* mark_attendance: _log_anomaly (db.add, flush) when the result carries an
\* anomaly.  The INSERT waits while another open session holds an
\* uncommitted DELETE of the student or of the session it refers to.
MarkLogAnomaly(r) ==
    /\ pc[r] = "log_anomaly"
    /\ ~DeletedElsewhere(r, "students", loc[r].student.id)
    /\ ~DeletedElsewhere(r, "sessions", req[r].session_id)
    /\ tx' = [tx EXCEPT ![r].anomaly_logs = @ \cup
                { NewAnomaly(next_anomaly_id, loc[r].student.id,
                             req[r].session_id, "verification_failed",
                             IF resp[r].result.anomaly_reason # None
                                /\ resp[r].result.anomaly_reason # ""
                             THEN resp[r].result.anomaly_reason
                             ELSE "Verification failed") }]
    /\ next_anomaly_id' = next_anomaly_id + 1
    /\ pc' = [pc EXCEPT ![r] =
                IF resp[r].result.success THEN "insert" ELSE "return"]
    /\ UNCHANGED <<vvars, cvars, students, sessions, attendances, anomaly_logs,
                   next_attendance_id, req, loc, resp, prior, raced>>

\* mark_attendance: db.add(attendance), flush and refresh.  The INSERT waits
\* while another open session holds an uncommitted row with the same key or
\* an uncommitted DELETE of the student or the session it refers to, and
\* fails with IntegrityError, which nothing catches, against a committed row
\* with the same key.
MarkInsert(r) ==
    /\ pc[r] = "insert"
    /\ ~DeletedElsewhere(r, "students", loc[r].student.id)
    /\ ~DeletedElsewhere(r, "sessions", req[r].session_id)
    /\ LET row == NewAttendance(next_attendance_id, loc[r].student.id,
                                req[r].session_id, resp[r].result)
       IN  /\ \A other \in PendingElsewhere(r) :
                ~unique_student_session(row, other)
           /\ IF \E other \in attendances \cup tx[r].attendances :
                    unique_student_session(row, other)
              THEN /\ resp' = [resp EXCEPT ![r] =
                            [NoResponse EXCEPT !.exception = "IntegrityError"]]
                   /\ pc' = [pc EXCEPT ![r] = "raise"]
                   /\ UNCHANGED <<tx, next_attendance_id>>
              ELSE /\ tx' = [tx EXCEPT ![r].attendances = @ \cup {row}]
                   /\ next_attendance_id' = next_attendance_id + 1
                   /\ resp' = [resp EXCEPT ![r].attendance = row.id]
                   /\ pc' = [pc EXCEPT ![r] = "return"]
    /\ UNCHANGED <<vvars, cvars, students, sessions, attendances, anomaly_logs,
                   next_anomaly_id, req, loc, prior, raced>>

\* a request arrives: PATCH /attendance/{attendance_id}/status
StartUpdate(r) ==
    /\ NextSlot(r)
    /\ \E q \in UpdateRequests : req' = [req EXCEPT ![r] = q]
    /\ pc' = [pc EXCEPT ![r] = "select_attendance"]
    /\ prior' = [prior EXCEPT ![r] = { p \in Requests : pc[p] = "closed" }]
    /\ UNCHANGED <<vvars, cvars, dbvars, loc, resp, raced>>

\* update_attendance_status: the select; the router answers 404 when the
\* service returns None
UpdateSelect(r) ==
    /\ pc[r] = "select_attendance"
    /\ LET found == { row \in VisibleAttendances(r) :
                        row.id = req[r].attendance_id }
       IN  IF found = {}
           THEN /\ resp' = [resp EXCEPT ![r].exception = "HTTPException 404"]
                /\ pc' = [pc EXCEPT ![r] = "raise"]
                /\ UNCHANGED loc
           ELSE /\ loc' = [loc EXCEPT ![r].attendance = req[r].attendance_id]
                /\ pc' = [pc EXCEPT ![r] = "set_status"]
                /\ UNCHANGED resp
    /\ UNCHANGED <<vvars, cvars, dbvars, req, prior, raced>>

\* update_attendance_status: attendance.status = status, flush and refresh.
\* The unit of work compares the assigned value with the one the select
\* loaded: an equal value leaves the object clean and the flush sends
\* nothing.  A different one sends an UPDATE of status and of updated_at
\* (onupdate=func.now()), which waits while another open session holds an
\* uncommitted UPDATE of the same row.
UpdateSetStatus(r) ==
    /\ pc[r] = "set_status"
    /\ LET loaded == CHOOSE row \in VisibleAttendances(r) :
                        row.id = loc[r].attendance
           changes == req[r].status # loaded.status
       IN  /\ changes =>
                \A o \in Requests \ {r} :
                    Live(o) => \A u \in tx[o].status_updates :
                                    u.id # loc[r].attendance
           /\ tx' = [tx EXCEPT ![r].status_updates =
                       IF changes
                       THEN { u \in @ : u.id # loc[r].attendance }
                            \cup { [id |-> loc[r].attendance,
                                    status |-> req[r].status,
                                    updated_at |-> now] }
                       ELSE @]
    /\ resp' = [resp EXCEPT ![r].attendance = loc[r].attendance]
    /\ pc' = [pc EXCEPT ![r] = "return"]
    /\ UNCHANGED <<vvars, cvars, students, sessions, attendances, anomaly_logs,
                   next_attendance_id, next_anomaly_id, req, loc, prior, raced>>

\* ------------------------------------------------------------------------
\* routers/attendance.py and get_db: the response is sent and the session
\* is closed, after a return as after an exception
\* ------------------------------------------------------------------------

Close(r) ==
    /\ pc[r] \in {"return", "raise"}
    /\ tx' = CloseSession(r)
    /\ pc' = [pc EXCEPT ![r] = "closed"]
    /\ UNCHANGED <<vvars, cvars, students, sessions, attendances, anomaly_logs,
                   next_attendance_id, next_anomaly_id, req, loc, resp,
                   prior, raced>>

\* ------------------------------------------------------------------------
\* Specification of the attendance ledger
\* ------------------------------------------------------------------------

\* no verify_student call is under test
IdleVerify ==
    /\ vargs \in {VerifyArgsOf(SeedStudents[1], NoFactors)}
    /\ vdone = FALSE
    /\ vresult = DefaultResult
    /\ vstudent = StudentRow(SeedStudents[1], FALSE)
    /\ vinvoked = {}
    /\ vpayloads = NoPayloads

\* no anomaly-service call is under test
IdleChecks ==
    /\ cargs = None
    /\ cdone = FALSE
    /\ cresult = None

Init ==
    /\ IdleVerify
    /\ IdleChecks
    /\ now = Epoch
    /\ students = SeedStudents
    /\ sessions = SeedSessions
    /\ attendances \in {{}, {SeedAttendance}}
    /\ anomaly_logs = {}
    /\ next_attendance_id = Cardinality(attendances) + 1
    /\ next_anomaly_id = 1
    /\ tx = [r \in Requests |-> EmptyTx]
    /\ pc = [r \in Requests |-> "idle"]
    /\ req = [r \in Requests |-> NoRequest]
    /\ loc = [r \in Requests |-> NoLocals]
    /\ resp = [r \in Requests |-> NoResponse]
    /\ prior = [r \in Requests |-> {}]
    /\ raced = [r \in Requests |-> {}]

Next ==
    \E r \in Requests :
        \/ StartMark(r)
        \/ MarkGetStudent(r)
        \/ MarkGetSession(r)
        \/ MarkCheckExisting(r)
        \/ MarkLogAnomaly(r)
        \/ MarkInsert(r)
        \/ StartUpdate(r)
        \/ UpdateSelect(r)
        \/ UpdateSetStatus(r)
        \/ Close(r)

Spec == Init /\ [][Next]_vars

\* ------------------------------------------------------------------------
\* Specification of the verification engine alone
\* ------------------------------------------------------------------------

\* no request has arrived
IdleRequests ==
    /\ tx = [r \in Requests |-> EmptyTx]
    /\ pc = [r \in Requests |-> "idle"]
    /\ req = [r \in Requests |-> NoRequest]
    /\ loc = [r \in Requests |-> NoLocals]
    /\ resp = [r \in Requests |-> NoResponse]
    /\ prior = [r \in Requests |-> {}]
    /\ raced = [r \in Requests |-> {}]

\* no request is ever made
IdleLedger ==
    /\ students = SeedStudents
    /\ sessions = SeedSessions
    /\ attendances = {}
    /\ anomaly_logs = {}
    /\ next_attendance_id = 1
    /\ next_anomaly_id = 1
    /\ IdleRequests

VerifyInit ==
    /\ vargs \in VerifyArgs
    /\ vstudent \in { s \in StudentTemplates :
                         /\ s.face_embedding = vargs.stored_face_embedding
                         /\ s.fingerprint_hash = vargs.stored_fingerprint_hash }
    /\ vdone = FALSE
    /\ vresult = DefaultResult
    /\ vinvoked = {}
    /\ vpayloads = NoPayloads
    /\ IdleChecks
    /\ now = Epoch
    /\ IdleLedger

VerifyStudent ==
    /\ ~vdone
    /\ vresult' = verify_student(vargs)
    /\ vdone' = TRUE
    /\ vinvoked' = ComparatorsInvoked(vargs)
    /\ UNCHANGED <<vargs, vstudent, vpayloads, cvars, dbvars, reqvars>>

VerifyNext == VerifyStudent

SpecVerify == VerifyInit /\ [][VerifyNext]_vars

\* ------------------------------------------------------------------------
\* Specification of the verification engine with its comparators
\* ------------------------------------------------------------------------

PayloadInit ==
    /\ vstudent \in StudentTemplates
    /\ vpayloads \in Payloads
    /\ vargs = VerifyArgsOfPayloads(vstudent, vpayloads)
    /\ vdone = FALSE
    /\ vresult = DefaultResult
    /\ vinvoked = {}
    /\ IdleChecks
    /\ now = Epoch
    /\ IdleLedger

SpecPayloads == PayloadInit /\ [][VerifyNext]_vars

\* ------------------------------------------------------------------------
\* services/anomaly.py: check_repeated_failures
\* ------------------------------------------------------------------------

max_failed_attempts == 3
attempt_window_minutes == 30

\* the most anomaly_logs rows the table holds when the check is called
MaxAnomalies == 4

\* an anomaly_logs row logged at attempt_time
AnomalyRow(id, student_id, session_id, anomaly_type, attempt_time) ==
    [ id           |-> id,
      student_id   |-> student_id,
      session_id   |-> session_id,
      anomaly_type |-> anomaly_type,
      severity     |-> "medium",
      reason       |-> "Verification failed",
      attempt_time |-> attempt_time,
      is_resolved  |-> FALSE ]

\* The rows a history is made of, for student 1 and session 1: a failure
\* inside the window, one exactly as old as the window, one a minute older,
\* an anomaly of another type, a failure of another student and a failure for
\* another session.
AnomalyKinds ==
    << <<1, 1, "verification_failed", Epoch - 15>>,
       <<1, 1, "verification_failed", Epoch - attempt_window_minutes>>,
       <<1, 1, "verification_failed", Epoch - attempt_window_minutes - 1>>,
       <<1, 1, "duplicate_face", Epoch - 15>>,
       <<2, 1, "verification_failed", Epoch - 15>>,
       <<1, 2, "verification_failed", Epoch - 15>> >>

KindRow(id, k) ==
    AnomalyRow(id, AnomalyKinds[k][1], AnomalyKinds[k][2], AnomalyKinds[k][3],
               AnomalyKinds[k][4])

\* the non-decreasing sequences of n kinds out of lo..hi
RECURSIVE KindLists(_, _, _)
KindLists(n, lo, hi) ==
    IF n = 0 THEN { <<>> }
    ELSE UNION { { <<k>> \o rest : rest \in KindLists(n - 1, k, hi) } :
                 k \in lo..hi }

\* every anomaly_logs table of at most MaxAnomalies such rows; the ids are
\* given in the order of the kinds, their order has no effect on a count
AnomalyHistories ==
    UNION { { { KindRow(i, h[i]) : i \in 1..n } : h \in KindLists(n, 1, Len(AnomalyKinds)) } :
            n \in 0..MaxAnomalies }

\* check_repeated_failures counting the anomalies of every type
check_repeated_failures_AnyType(logs, student_id, session_id) ==
    LET window_start == now - attempt_window_minutes
        count == Cardinality({ a \in logs :
                    /\ a.student_id = student_id
                    /\ a.session_id = session_id
                    /\ a.attempt_time >= window_start })
    IN  count >= max_failed_attempts

\* check_repeated_failures, on the anomaly_logs rows its session reads
check_repeated_failures(logs, student_id, session_id) ==
    LET window_start == now - attempt_window_minutes
        count == Cardinality({ a \in logs :
                    /\ a.student_id = student_id
                    /\ a.session_id = session_id
                    /\ a.anomaly_type = "verification_failed"
                    /\ a.attempt_time >= window_start })
    IN  count >= max_failed_attempts

\* anomaly_service.check_repeated_failures(db, student_id, session_id) is
\* called and returns
CheckRepeatedFailures ==
    /\ ~cdone
    /\ cresult' = check_repeated_failures(anomaly_logs, cargs.student_id,
                                          cargs.session_id)
    /\ cdone' = TRUE
    /\ UNCHANGED <<now, cargs, vvars, dbvars, reqvars>>

RepeatedInit ==
    /\ IdleVerify
    /\ now = Epoch
    /\ cargs \in [ student_id : {1, 2}, session_id : {1} ]
    /\ cdone = FALSE
    /\ cresult = None
    /\ students = SeedStudents
    /\ sessions = SeedSessions
    /\ attendances = {}
    /\ anomaly_logs \in AnomalyHistories
    /\ next_attendance_id = 1
    /\ next_anomaly_id = Cardinality(anomaly_logs) + 1
    /\ IdleRequests

RepeatedNext == CheckRepeatedFailures

SpecRepeated == RepeatedInit /\ [][RepeatedNext]_vars

\* ------------------------------------------------------------------------
\* Specification of one mark attempt after three logged failures
\* ------------------------------------------------------------------------

\* The anomaly_logs table after three failed attempts of student 1 for
\* session 1 had been logged and kept: each either inside the window or one
\* minute older than it.
ThrottleHistories ==
    { { AnomalyRow(i, 1, 1, "verification_failed", t[i]) : i \in 1..3 } :
        t \in { u \in [1..3 -> { Epoch - attempt_window_minutes - 1, Epoch - 15 }] :
                  \A i \in 1..2 : u[i] <= u[i + 1] } }

ThrottleInit ==
    /\ IdleVerify
    /\ IdleChecks
    /\ now = Epoch
    /\ students = SeedStudents
    /\ sessions = SeedSessions
    /\ attendances = {}
    /\ anomaly_logs \in ThrottleHistories
    /\ next_attendance_id = 1
    /\ next_anomaly_id = Cardinality(anomaly_logs) + 1
    /\ IdleRequests

\* one POST /attendance/mark, from its arrival to the end of its session
ThrottleNext ==
    \E r \in {1} :
        \/ StartMark(r)
        \/ MarkGetStudent(r)
        \/ MarkGetSession(r)
        \/ MarkCheckExisting(r)
        \/ MarkLogAnomaly(r)
        \/ MarkInsert(r)
        \/ Close(r)

SpecThrottle == ThrottleInit /\ [][ThrottleNext]_vars

\* ------------------------------------------------------------------------
\* services/anomaly.py: check_duplicate_face
\* ------------------------------------------------------------------------

Colleges == {"north", "south"}

\* The students table of the duplicate-face check: student 3, who claims the
\* face, is enrolled at "north"; 1 and 2 may be at either college, with or
\* without a face embedding.
DuplicateStudents ==
    { t \in [ {1, 2, 3} -> [ id               : {1, 2, 3},
                             college_id       : Colleges,
                             face_embedding   : BOOLEAN,
                             fingerprint_hash : {FALSE},
                             is_enrolled      : BOOLEAN ] ] :
        /\ \A i \in {1, 2, 3} :
                t[i].id = i /\ t[i].is_enrolled = t[i].face_embedding
        /\ t[3].college_id = "north" /\ t[3].face_embedding }

\* The call: the face image, its reading against each student's embedding,
\* the claimant, the college, and the order in which the database returns
\* the selected rows (the select has no ORDER BY).
DuplicateCalls ==
    { c \in [ sample              : { f \in FaceSamples : f.supplied },
              reading             : [ {1, 2, 3} -> Readings ],
              claiming_student_id : {3},
              college_id          : Colleges,
              scan                : { <<1, 2, 3>>, <<2, 1, 3>> } ] :
        /\ c.sample.reading = c.reading[3]
        /\ (c.sample.fault # "none" \/ ~c.sample.face_found) =>
                \A i \in {1, 2, 3} : c.reading[i] = Hundredths(61)
        /\ (c.sample.fault = "none" /\ c.sample.library /\ c.sample.face_found) =>
                /\ c.reading[3] = Hundredths(10)
                /\ \A i \in {1, 2} : c.reading[i] \in {Hundredths(10), Hundredths(60), Hundredths(61)}
        /\ ~c.sample.library =>
                /\ c.reading[3] = Hundredths(81)
                /\ \A i \in {1, 2} : c.reading[i] \in {Hundredths(70), Hundredths(81)} }

\* None, as find_matching_face and check_duplicate_face return it
NoFaceMatch == [ student_id |-> 0, confidence |-> 0 ]
NoDuplicate == [ matched_student_id |-> 0 ]

\* the face image as compare_faces sees it against one stored embedding
SampleAgainst(sample, reading, student_id) ==
    [ sample EXCEPT !.reading = reading[student_id] ]

\* find_matching_face: the loop over the embeddings from position i on
RECURSIVE BestMatch(_, _, _, _, _)
BestMatch(sample, reading, embeddings, i, best) ==
    IF i > Len(embeddings) THEN best
    ELSE LET out == compare_faces(SampleAgainst(sample, reading, embeddings[i]))
         IN  BestMatch(sample, reading, embeddings, i + 1,
                       IF out.verified /\ out.confidence > best.confidence
                       THEN [ student_id |-> embeddings[i],
                              confidence |-> out.confidence ]
                       ELSE best)

\* find_matching_face walking the embeddings from the last to the first, so
\* that of two equally confident matches the later one is kept
find_matching_face_LastOnTies(sample, reading, embeddings) ==
    IF sample.library /\ ~sample.face_found THEN NoFaceMatch
    ELSE BestMatch(sample, reading,
                   [ i \in 1..Len(embeddings) |->
                        embeddings[Len(embeddings) + 1 - i] ],
                   1, NoFaceMatch)

\* find_matching_face
find_matching_face(sample, reading, embeddings) ==
    IF sample.library /\ ~sample.face_found THEN NoFaceMatch
    ELSE BestMatch(sample, reading, embeddings, 1, NoFaceMatch)

\* check_duplicate_face: what it returns is the matched student's id alone
check_duplicate_face(table, c) ==
    LET Selected(i) ==
            /\ table[i].college_id = c.college_id
            /\ table[i].face_embedding
            /\ i # c.claiming_student_id
        rows == SelectSeq(c.scan, Selected)
        match == find_matching_face(c.sample, c.reading, rows)
    IN  IF rows = <<>> THEN NoDuplicate
        ELSE IF c.sample.fault # "none" THEN NoDuplicate
        ELSE IF match # NoFaceMatch
        THEN [ matched_student_id |-> match.student_id ]
        ELSE NoDuplicate

\* anomaly_service.check_duplicate_face(db, face_image_base64,
\* claiming_student_id, college_id) is called and returns
CheckDuplicateFace ==
    /\ ~cdone
    /\ cresult' = check_duplicate_face(students, cargs)
    /\ cdone' = TRUE
    /\ UNCHANGED <<now, cargs, vvars, dbvars, reqvars>>

DuplicateInit ==
    /\ IdleVerify
    /\ now = Epoch
    /\ cargs \in DuplicateCalls
    /\ cdone = FALSE
    /\ cresult = NoDuplicate
    /\ students \in DuplicateStudents
    /\ sessions = SeedSessions
    /\ attendances = {}
    /\ anomaly_logs = {}
    /\ next_attendance_id = 1
    /\ next_anomaly_id = 1
    /\ IdleRequests

DuplicateNext == CheckDuplicateFace

SpecDuplicate == DuplicateInit /\ [][DuplicateNext]_vars

\* ------------------------------------------------------------------------
\* Specification of the shared-address check
\* ------------------------------------------------------------------------

\* the client addresses of the requests
Addresses == {"10.0.0.1", "10.0.0.2"}

\* an anomaly_logs row as log_anomaly and _log_anomaly build it, with the
\* address of the request that failed; student_id 0 and ip_address None stand
\* for NULL
AddressAnomaly(id, student_id, session_id, ip_address) ==
    [ id           |-> id,
      student_id   |-> student_id,
      session_id   |-> session_id,
      anomaly_type |-> "verification_failed",
      severity     |-> "medium",
      reason       |-> "Verification failed",
      attempt_time |-> Epoch - 15,
      ip_address   |-> ip_address,
      is_resolved  |-> FALSE ]

\* an attendances row as mark_attendance inserts it after a successful
\* face verification, with the address of the request
AddressAttendance(id, student_id, session_id, ip_address) ==
    [ id                  |-> id,
      student_id          |-> student_id,
      session_id          |-> session_id,
      status              |-> "present",
      face_confidence     |-> Hundredths(92),
      id_card_confidence  |-> NullFloat,
      fingerprint_match   |-> FALSE,
      overall_confidence  |-> TenThousandths(4600),
      verification_method |-> "face",
      updated_at          |-> Epoch - 15,
      ip_address          |-> ip_address ]

\* The rows an anomaly history is made of, seen from a check of address
\* "10.0.0.1" for session 1: a failure of student 2 from that address, one of
\* student 1, one for another session, one from another address, one with no
\* address and one with no student.
AddressKinds ==
    << <<2, 1, "10.0.0.1">>,
       <<1, 1, "10.0.0.1">>,
       <<2, 2, "10.0.0.1">>,
       <<2, 1, "10.0.0.2">>,
       <<2, 1, None>>,
       <<0, 1, "10.0.0.1">> >>

AddressKindRow(id, k) ==
    AddressAnomaly(id, AddressKinds[k][1], AddressKinds[k][2], AddressKinds[k][3])

\* every anomaly_logs table of at most MaxAnomalies such rows
AddressHistories ==
    UNION { { { AddressKindRow(i, h[i]) : i \in 1..n } :
              h \in KindLists(n, 1, Len(AddressKinds)) } :
            n \in 0..MaxAnomalies }

\* the attendances table: empty, or one successful mark of student 1 or 2
\* for session 1 from either address
AddressAttendances ==
    { {} } \cup { { AddressAttendance(1, i, 1, a) } :
                  i \in {1, 2}, a \in Addresses }

\* check_ip_anomaly counting the students of every session
check_ip_anomaly_AnySession(logs, ip_address, session_id, student_id) ==
    LET other_students == Cardinality({ a.student_id : a \in { b \in logs :
                                /\ b.ip_address # None
                                /\ b.ip_address = ip_address
                                /\ b.student_id # 0
                                /\ b.student_id # student_id } })
    IN  other_students > 0

\* check_ip_anomaly counting the students of the attendances rows as well
check_ip_anomaly_CountsAttendances(logs, ip_address, session_id, student_id) ==
    LET other_students == Cardinality({ a.student_id : a \in { b \in logs \cup attendances :
                                /\ b.ip_address # None
                                /\ b.ip_address = ip_address
                                /\ b.session_id = session_id
                                /\ b.student_id # 0
                                /\ b.student_id # student_id } })
    IN  other_students > 0

\* check_ip_anomaly, on the anomaly_logs rows its session reads: the number
\* of distinct students; a comparison with NULL selects no row
check_ip_anomaly(logs, ip_address, session_id, student_id) ==
    LET other_students == Cardinality({ a.student_id : a \in { b \in logs :
                                /\ b.ip_address # None
                                /\ b.ip_address = ip_address
                                /\ b.session_id = session_id
                                /\ b.student_id # 0
                                /\ b.student_id # student_id } })
    IN  other_students > 0

\* anomaly_service.check_ip_anomaly(db, ip_address, session_id, student_id)
\* is called and returns
CheckIpAnomaly ==
    /\ ~cdone
    /\ cresult' = check_ip_anomaly(anomaly_logs, cargs.ip_address,
                                   cargs.session_id, cargs.student_id)
    /\ cdone' = TRUE
    /\ UNCHANGED <<now, cargs, vvars, dbvars, reqvars>>

AddressInit ==
    /\ IdleVerify
    /\ now = Epoch
    /\ cargs \in [ ip_address : {"10.0.0.1"}, session_id : {1},
                   student_id : {1, 2, 3} ]
    /\ cdone = FALSE
    /\ cresult = None
    /\ students = SeedStudents
    /\ sessions = SeedSessions
    /\ attendances \in AddressAttendances
    /\ anomaly_logs \in AddressHistories
    /\ next_attendance_id = Cardinality(attendances) + 1
    /\ next_anomaly_id = Cardinality(anomaly_logs) + 1
    /\ IdleRequests

AddressNext == CheckIpAnomaly

SpecAddress == AddressInit /\ [][AddressNext]_vars

\* ------------------------------------------------------------------------
\* Specification of two requests side by side: marks, status updates and
\* the requests that create, change and delete sessions
\* (routers/sessions.py)
\* ------------------------------------------------------------------------

\* the courses table: course 1 is taught by the faculty user 5.  No course 2
\* exists.
SeedCourses == [ i \in {1} |-> [ id |-> i, faculty_id |-> 5 ] ]

\* who sends a request to the sessions router: an admin, the faculty user
\* who teaches course 1, or another faculty user
SessionUsers ==
    { [ id |-> 9, role |-> "admin" ],
      [ id |-> 5, role |-> "faculty" ],
      [ id |-> 6, role |-> "faculty" ] }

\* a field the body of a PATCH leaves out (model_dump(exclude_unset=True))
Unset == "unset"

\* The requests to the sessions router:
\* POST /sessions/{session_id}/activate with is_active in its body,
\* PATCH /sessions/{session_id}, POST /sessions/create and
\* DELETE /sessions/{session_id}.  A field a request does not carry is left
\* at one value.
\* bodies: a PATCH may leave is_active unset, set it to a value or to null
\* (nulls_is_active) and may set room_no, to the value the rows have ("A1"),
\* to another or to null; a create may leave room_no out.
\* schedules: session_date, start_time, end_time and building in a PATCH
\* are left out (Unset), null (None) or a value: one of them at a time is
\* set, or the two times together; another day, a start_time after the
\* end_time of the rows, an end_time before their start_time or after it,
\* the building the rows have or another.  Such a PATCH sets neither
\* is_active nor room_no.
\* A SessionCreate body has been validated when create_session is called:
\* it has a session_date and an end_time after its start_time; its building
\* is left out.
SessionRequests ==
    LET bodies ==
        { q \in [ kind           : {"activate_session", "update_session",
                                    "create_session", "delete_session"},
                  student_id     : {0},
                  session_id     : {0, 1, 2, 3},
                  factors        : {NoFactors},
                  attendance_id  : {0},
                  status         : {"present"},
                  sets_is_active : BOOLEAN,
                  is_active      : BOOLEAN,
                  nulls_is_active : BOOLEAN,
                  room_no        : {Unset, None, "A1", "B2"},
                  course_id      : {0, 1, 2},
                  current_user   : SessionUsers ] :
            /\ q.kind = "activate_session" => q.sets_is_active
            /\ ~q.sets_is_active => ~q.is_active
            /\ q.kind # "update_session" => ~q.nulls_is_active
            /\ q.kind \in {"activate_session", "delete_session"} =>
                    q.room_no = Unset
            /\ q.kind = "create_session" => q.room_no \in {Unset, "A1"}
            /\ q.nulls_is_active =>
                    q.sets_is_active /\ ~q.is_active /\ q.room_no = Unset
            /\ q.room_no \in {None, "A1"} => ~q.sets_is_active
            /\ q.kind \in {"create_session", "delete_session"} => ~q.sets_is_active
            /\ (q.kind = "create_session") = (q.session_id = 0)
            /\ (q.kind = "create_session") = (q.course_id # 0)
            /\ q.kind = "delete_session" => q.current_user.role = "admin"
            /\ q.kind \in {"activate_session", "update_session"} =>
                    q.current_user.id = 5
            /\ (q.kind = "create_session" /\ q.course_id \notin DOMAIN SeedCourses)
                    => q.current_user.role = "admin"
            /\ (q.kind \in {"activate_session", "update_session"}
                    /\ q.session_id \notin DOMAIN SeedSessions) =>
                    q.kind = "activate_session" /\ q.is_active }
        fields(d, s, e, b) ==
            [ session_date |-> d, start_time |-> s, end_time |-> e,
              building |-> b ]
        none    == fields(Unset, Unset, Unset, Unset)
        created == fields("2026-01-16", "09:00", "10:00", Unset)
        schedules ==
            { fields(d, Unset, Unset, Unset) : d \in {None, "2026-01-16"} }
            \cup { fields(Unset, t, Unset, Unset) : t \in {None, "11:00"} }
            \cup { fields(Unset, Unset, t, Unset) :
                     t \in {None, "08:00", "12:00"} }
            \cup { fields(Unset, Unset, Unset, b) : b \in {None, "Main", "X"} }
            \cup { fields(Unset, "11:00", "12:00", Unset) }
    IN  { q @@ (IF q.kind = "create_session" THEN created ELSE none) :
            q \in bodies }
        \cup { q @@ f :
                 q \in { b \in bodies :
                           /\ b.kind = "update_session"
                           /\ ~b.sets_is_active /\ b.room_no = Unset },
                 f \in schedules }

\* a request arrives at the sessions router
StartActivate(r) ==
    /\ NextSlot(r)
    /\ \E q \in SessionRequests :
            /\ req' = [req EXCEPT ![r] = q]
            /\ pc' = [pc EXCEPT ![r] =
                        IF q.kind = "create_session" THEN "select_course"
                        ELSE "select_session"]
    /\ prior' = [prior EXCEPT ![r] = { p \in Requests : pc[p] = "closed" }]
    /\ UNCHANGED <<vvars, cvars, dbvars, loc, resp, raced>>

\* activate_session, update_session, delete_session: the select and the 404
ActivateSelect(r) ==
    /\ pc[r] = "select_session"
    /\ IF req[r].session_id \notin DOMAIN sessions
       THEN /\ resp' = [resp EXCEPT ![r].exception = "HTTPException 404"]
            /\ pc' = [pc EXCEPT ![r] = "raise"]
       ELSE /\ pc' = [pc EXCEPT ![r] =
                        IF req[r].kind = "delete_session" THEN "delete_session"
                        ELSE "set_is_active"]
            /\ UNCHANGED resp
    /\ UNCHANGED <<vvars, cvars, dbvars, req, loc, prior, raced>>

\* activate_session assigns session.is_active; update_session assigns every
\* field its body sets.  The flush sends one UPDATE when a column has changed,
\* which sets updated_at as well (onupdate=func.now()),
\* then the row is refreshed and the SessionResponse built.  is_active,
\* session_date, start_time and end_time are NOT NULL: an UPDATE that sets
\* one of them to NULL raises IntegrityError, which nothing catches, before
\* it waits for any lock; room_no and building may be NULL.  Otherwise the
\* UPDATE waits while another open session holds an uncommitted UPDATE or
\* DELETE of the same row.  SessionResponse validates the times
\* (SessionBase.validate_times): when the end_time of the refreshed row is
\* not after its start_time it raises ValidationError, after the UPDATE
\* was flushed.
ActivateSetActive(r) ==
    /\ pc[r] = "set_is_active"
    /\ LET id      == req[r].session_id
           loaded  == sessions[id]
           PatchedValue(field, old) == IF field # Unset THEN field ELSE old
           minutes(t) == CASE t = "08:00" -> 480 [] t = "09:00" -> 540
                           [] t = "10:00" -> 600 [] t = "11:00" -> 660
                           [] t = "12:00" -> 720
           assigned == [loaded EXCEPT
                         !.is_active = IF req[r].sets_is_active
                                       THEN req[r].is_active ELSE @,
                         !.session_date = PatchedValue(req[r].session_date, @),
                         !.start_time = PatchedValue(req[r].start_time, @),
                         !.end_time   = PatchedValue(req[r].end_time, @),
                         !.room_no    = PatchedValue(req[r].room_no, @),
                         !.building   = PatchedValue(req[r].building, @)]
           updated == IF assigned # loaded
                      THEN [assigned EXCEPT !.updated_at = now]
                      ELSE loaded
       IN  IF \/ req[r].nulls_is_active
              \/ None \in {assigned.session_date, assigned.start_time,
                            assigned.end_time}
           THEN /\ resp' = [resp EXCEPT ![r].exception = "IntegrityError"]
                /\ pc' = [pc EXCEPT ![r] = "raise"]
                /\ UNCHANGED tx
           ELSE /\ updated # loaded => ~WrittenElsewhere(r, "sessions", id)
                /\ tx' = [tx EXCEPT ![r].row_writes =
                            IF updated # loaded
                            THEN { RowWrite("sessions", id, FALSE, updated) }
                            ELSE {}]
                /\ IF minutes(updated.end_time) <= minutes(updated.start_time)
                   THEN /\ resp' = [resp EXCEPT
                                     ![r].exception = "ValidationError"]
                        /\ pc' = [pc EXCEPT ![r] = "raise"]
                   ELSE /\ pc' = [pc EXCEPT ![r] = "return"]
                        /\ UNCHANGED resp
    /\ UNCHANGED <<vvars, cvars, students, sessions, attendances, anomaly_logs,
                   next_attendance_id, next_anomaly_id, req, loc,
                   prior, raced>>

\* the id the sessions sequence gives next: a sequence is not rolled back,
\* so every session a request has inserted took one
NextSessionId ==
    Cardinality(DOMAIN SeedSessions) + 1
    + Cardinality({ o \in Requests : req[o].kind = "create_session"
                                        /\ resp[o].attendance # 0 })

\* create_session: the select of the course, the 404 and the 403
CreateSessionSelect(r) ==
    /\ pc[r] = "select_course"
    /\ IF req[r].course_id \notin DOMAIN SeedCourses
       THEN /\ resp' = [resp EXCEPT ![r].exception = "HTTPException 404"]
            /\ pc' = [pc EXCEPT ![r] = "raise"]
       ELSE IF /\ req[r].current_user.role = "faculty"
               /\ SeedCourses[req[r].course_id].faculty_id
                    # req[r].current_user.id
       THEN /\ resp' = [resp EXCEPT ![r].exception = "HTTPException 403"]
            /\ pc' = [pc EXCEPT ![r] = "raise"]
       ELSE /\ pc' = [pc EXCEPT ![r] = "insert_session"]
            /\ UNCHANGED resp
    /\ UNCHANGED <<vvars, cvars, dbvars, req, loc, prior, raced>>

\* create_session: Session(...) with the fields of the body, room_no and
\* building None when the body has none, and is_active=True, db.add, flush
\* and refresh;
\* the SessionResponse (201) carries the new id, kept here where the
\* attendance handlers keep the id of their row
CreateSessionInsert(r) ==
    /\ pc[r] = "insert_session"
    /\ tx' = [tx EXCEPT ![r].row_writes =
                { RowWrite("sessions", NextSessionId, FALSE,
                           [ id |-> NextSessionId, is_active |-> TRUE,
                             session_date |-> req[r].session_date,
                             start_time |-> req[r].start_time,
                             end_time |-> req[r].end_time,
                             room_no |-> IF req[r].room_no = Unset THEN None
                                         ELSE req[r].room_no,
                             building |-> IF req[r].building = Unset THEN None
                                          ELSE req[r].building,
                             updated_at |-> now ]) }]
    /\ resp' = [resp EXCEPT ![r].attendance = NextSessionId]
    /\ pc' = [pc EXCEPT ![r] = "return"]
    /\ UNCHANGED <<vvars, cvars, students, sessions, attendances, anomaly_logs,
                   next_attendance_id, next_anomaly_id, req, loc, prior, raced>>

\* What db.delete of a students or sessions row flushes.  The attendances
\* and anomaly_logs relationships have no delete cascade, so the unit of
\* work first sets the foreign key of the loaded children to NULL: for an
\* attendances row that violates NOT NULL and raises IntegrityError, which
\* nothing catches; an anomaly_logs row is updated (0 stands for NULL).  Then
\* the row is deleted.  The statements wait while another open session holds
\* an uncommitted write of one of these rows or has inserted a row that
\* refers to the deleted one.
DeleteParent(r, table, id, row) ==
    LET refers(a) == IF table = "students" THEN a.student_id = id
                     ELSE a.session_id = id
        orphan(a) == IF table = "students"
                     THEN [a EXCEPT !.student_id = 0, !.updated_at = now]
                     ELSE [a EXCEPT !.session_id = 0, !.updated_at = now]
        kept      == { a \in VisibleAttendances(r) : refers(a) }
        logged    == { a \in anomaly_logs : refers(a) }
    IN  IF kept # {}
        THEN /\ resp' = [resp EXCEPT ![r].exception = "IntegrityError"]
             /\ pc' = [pc EXCEPT ![r] = "raise"]
             /\ UNCHANGED tx
        ELSE /\ ~WrittenElsewhere(r, table, id)
             /\ ~ReferredToElsewhere(r, table, id)
             /\ \A a \in logged : ~WrittenElsewhere(r, "anomaly_logs", a.id)
             /\ tx' = [tx EXCEPT ![r].row_writes =
                        { w \in @ : ~(w.table = table /\ w.id = id) }
                        \cup { RowWrite(table, id, TRUE, row) }
                        \cup { RowWrite("anomaly_logs", a.id, FALSE, orphan(a)) :
                               a \in logged }]
             /\ pc' = [pc EXCEPT ![r] = "return"]
             /\ UNCHANGED resp

\* delete_session: db.delete(session) and the flush; answers 204
DeleteSessionFlush(r) ==
    /\ pc[r] = "delete_session"
    /\ DeleteParent(r, "sessions", req[r].session_id,
                    sessions[req[r].session_id])
    /\ UNCHANGED <<vvars, cvars, students, sessions, attendances, anomaly_logs,
                   next_attendance_id, next_anomaly_id, req, loc, prior, raced>>

\* two requests, each a mark, a status update or a session request, from
\* their arrival to the end of their database sessions
SessionsNext ==
    \E r \in {1, 2} :
        \/ StartMark(r)
        \/ MarkGetStudent(r)
        \/ MarkGetSession(r)
        \/ MarkCheckExisting(r)
        \/ MarkLogAnomaly(r)
        \/ MarkInsert(r)
        \/ StartUpdate(r)
        \/ UpdateSelect(r)
        \/ UpdateSetStatus(r)
        \/ StartActivate(r)
        \/ ActivateSelect(r)
        \/ ActivateSetActive(r)
        \/ CreateSessionSelect(r)
        \/ CreateSessionInsert(r)
        \/ DeleteSessionFlush(r)
        \/ Close(r)

SpecSessions == Init /\ [][SessionsNext]_vars

\* ------------------------------------------------------------------------
\* Specification of the requests that write anomaly_logs rows: marks, which
\* log anomalies, POST /anomalies/{anomaly_id}/resolve
\* (routers/anomalies.py, services/anomaly.py) and the session requests,
\* of which the delete clears the session_id of the session's anomalies
\* ------------------------------------------------------------------------

\* resolved_at of a row that was never resolved (NULL)
NullTime == -1

\* the ids of the faculty and admin users who resolve anomalies
Resolvers == {7, 8}

\* the notes a resolver may give
ResolutionNotes == {"false alarm", "confirmed"}

\* an anomaly_logs row as it is stored, with the columns the resolution
\* writes at their defaults
LoggedAnomaly(id, student_id, session_id, anomaly_type, reason, ip_address) ==
    [ id               |-> id,
      student_id       |-> student_id,
      session_id       |-> session_id,
      anomaly_type     |-> anomaly_type,
      severity         |-> "medium",
      reason           |-> reason,
      attempt_time     |-> now,
      ip_address       |-> ip_address,
      is_resolved      |-> FALSE,
      resolved_by      |-> 0,
      resolution_notes |-> None,
      resolved_at      |-> NullTime,
      updated_at       |-> now ]

\* POST /anomalies/{anomaly_id}/resolve by one of the resolvers.  No row 2
\* exists.
ResolveRequests ==
    { q \in [ kind             : {"resolve_anomaly"},
              student_id       : {0},
              session_id       : {0},
              factors          : {NoFactors},
              attendance_id    : {0},
              status           : {"present"},
              anomaly_id       : {1, 2},
              resolved_by      : Resolvers,
              resolution_notes : ResolutionNotes ] :
        q.anomaly_id = 2 =>
            q.resolved_by = 7 /\ q.resolution_notes = "false alarm" }

\* an anomaly_logs row as request r reads it: with r's own flushed UPDATE
AnomalyAsSeenBy(r, row) ==
    IF \E w \in WritesOf(r, "anomaly_logs") : w.id = row.id
    THEN (CHOOSE w \in WritesOf(r, "anomaly_logs") : w.id = row.id).row
    ELSE row

\* a request arrives: POST /anomalies/{anomaly_id}/resolve
StartResolve(r) ==
    /\ NextSlot(r)
    /\ \E q \in ResolveRequests : req' = [req EXCEPT ![r] = q]
    /\ pc' = [pc EXCEPT ![r] = "select_anomaly"]
    /\ prior' = [prior EXCEPT ![r] = { p \in Requests : pc[p] = "closed" }]
    /\ UNCHANGED <<vvars, cvars, dbvars, loc, resp, raced>>

\* resolve_anomaly: the select; the service returns None when there is no
\* row of that id and the route answers 404
ResolveSelect(r) ==
    /\ pc[r] = "select_anomaly"
    /\ LET found == { AnomalyAsSeenBy(r, a) : a \in
                        { x \in anomaly_logs : x.id = req[r].anomaly_id } }
       IN  IF found = {}
           THEN /\ resp' = [resp EXCEPT ![r].exception = "HTTPException 404"]
                /\ pc' = [pc EXCEPT ![r] = "raise"]
                /\ UNCHANGED loc
           ELSE /\ loc' = [loc EXCEPT ![r] =
                            [ student    |-> NoLocals.student,
                              attendance |-> 0,
                              invoked    |-> {},
                              anomaly    |-> CHOOSE a \in found : TRUE ]]
                /\ pc' = [pc EXCEPT ![r] = "resolve"]
                /\ UNCHANGED resp
    /\ UNCHANGED <<vvars, cvars, dbvars, req, prior, raced>>

\* resolve_anomaly: the four assignments to the row the select loaded,
\* whether it is resolved already or not
resolve_anomaly(anomaly, resolved_by, resolution_notes) ==
    [ anomaly EXCEPT !.is_resolved      = TRUE,
                     !.resolved_by      = resolved_by,
                     !.resolution_notes = resolution_notes,
                     !.resolved_at      = now ]

\* resolve_anomaly: the assignments, the flush and the refresh; the route
\* answers with the row.  The UPDATE, which sets updated_at as well
\* (onupdate=func.now()), waits while another open session holds
\* an uncommitted UPDATE of the same row; the refresh reads the row the
\* session has just written and locked.
ResolveFlush(r) ==
    /\ pc[r] = "resolve"
    /\ ~WrittenElsewhere(r, "anomaly_logs", loc[r].anomaly.id)
    /\ LET resolved == resolve_anomaly(loc[r].anomaly, req[r].resolved_by,
                                       req[r].resolution_notes)
           row == [resolved EXCEPT !.updated_at = now]
       IN  /\ tx' = [tx EXCEPT ![r].row_writes =
                        { w \in @ : ~(w.table = "anomaly_logs" /\ w.id = row.id) }
                        \cup { RowWrite("anomaly_logs", row.id, FALSE, row) }]
           /\ resp' = [resp EXCEPT ![r].result = row]
    /\ pc' = [pc EXCEPT ![r] = "return"]
    /\ UNCHANGED <<vvars, cvars, students, sessions, attendances, anomaly_logs,
                   next_attendance_id, next_anomaly_id, req, loc, prior, raced>>

\* Calls of AnomalyService.log_anomaly, each with a database session of its
\* own: the student and the session may be left at None (0) or name a row
\* that does not exist (student 9), the type and the severity are the
\* caller's.
LogAnomalyCalls ==
    { q \in [ kind          : {"log_anomaly"},
              student_id    : {0, 3, 9},
              session_id    : {0, 1},
              factors       : {NoFactors},
              attendance_id : {0},
              status        : {"present"},
              anomaly_type  : {"verification_failed", "duplicate_face"},
              severity      : {"medium", "high"},
              reason        : {"Verification failed",
                               "Face matches another student"},
              ip_address    : {"10.0.0.1"} ] :
        /\ (q.anomaly_type = "duplicate_face")
                = (q.reason = "Face matches another student")
        /\ q.severity = "high" => q.anomaly_type = "duplicate_face"
        /\ q.student_id = 9 =>
                q.session_id = 0 /\ q.anomaly_type = "duplicate_face"
                    /\ q.severity = "medium" }

\* a call of log_anomaly begins
StartLogAnomaly(r) ==
    /\ NextSlot(r)
    /\ \E q \in LogAnomalyCalls : req' = [req EXCEPT ![r] = q]
    /\ pc' = [pc EXCEPT ![r] = "add_anomaly"]
    /\ prior' = [prior EXCEPT ![r] = { p \in Requests : pc[p] = "closed" }]
    /\ UNCHANGED <<vvars, cvars, dbvars, loc, resp, raced>>

\* log_anomaly: AnomalyLog(...) with the arguments as given, db.add, flush
\* and refresh; the row is returned.  The INSERT fails with IntegrityError
\* when it names a student or a session that does not exist, and waits while
\* another open session holds an uncommitted DELETE of the row it names.
LogAnomaly(r) ==
    /\ pc[r] = "add_anomaly"
    /\ LET q   == req[r]
           row == [ LoggedAnomaly(next_anomaly_id, q.student_id, q.session_id,
                                  q.anomaly_type, q.reason, q.ip_address)
                    EXCEPT !.severity = q.severity ]
       IN  IF \/ q.student_id # 0 /\ q.student_id \notin DOMAIN students
              \/ q.session_id # 0 /\ q.session_id \notin DOMAIN sessions
           THEN /\ resp' = [resp EXCEPT ![r].exception = "IntegrityError"]
                /\ pc' = [pc EXCEPT ![r] = "raise"]
                /\ UNCHANGED tx
           ELSE /\ q.student_id # 0 =>
                        ~DeletedElsewhere(r, "students", q.student_id)
                /\ q.session_id # 0 =>
                        ~DeletedElsewhere(r, "sessions", q.session_id)
                /\ tx' = [tx EXCEPT ![r].anomaly_logs = @ \cup {row}]
                /\ resp' = [resp EXCEPT ![r].result = row]
                /\ pc' = [pc EXCEPT ![r] = "return"]
    /\ next_anomaly_id' = next_anomaly_id + 1
    /\ UNCHANGED <<vvars, cvars, students, sessions, attendances, anomaly_logs,
                   next_attendance_id, req, loc, prior, raced>>

\* the anomaly that may be on record when the service starts: a failed
\* verification of student 1 for session 1, not resolved
SeedAnomaly ==
    [ LoggedAnomaly(1, 1, 1, "verification_failed", "Verification failed",
                    "10.0.0.1")
      EXCEPT !.attempt_time = Epoch - 15, !.updated_at = Epoch - 15 ]

\* one unresolved anomaly is on record, or none
ResolveInit ==
    /\ IdleVerify
    /\ IdleChecks
    /\ now = Epoch
    /\ students = SeedStudents
    /\ sessions = SeedSessions
    /\ attendances = {}
    /\ anomaly_logs \in {{}, {SeedAnomaly}}
    /\ next_anomaly_id = Cardinality(anomaly_logs) + 1
    /\ next_attendance_id = 1
    /\ IdleRequests

\* two requests, each a mark, a resolve, a call of log_anomaly or a session
\* request, from their arrival to the end of their database sessions
ResolveNext ==
    \E r \in {1, 2} :
        \/ StartMark(r)
        \/ MarkGetStudent(r)
        \/ MarkGetSession(r)
        \/ MarkCheckExisting(r)
        \/ MarkLogAnomaly(r)
        \/ MarkInsert(r)
        \/ StartResolve(r)
        \/ ResolveSelect(r)
        \/ ResolveFlush(r)
        \/ StartLogAnomaly(r)
        \/ LogAnomaly(r)
        \/ StartActivate(r)
        \/ ActivateSelect(r)
        \/ ActivateSetActive(r)
        \/ CreateSessionSelect(r)
        \/ CreateSessionInsert(r)
        \/ DeleteSessionFlush(r)
        \/ Close(r)

SpecResolve == ResolveInit /\ [][ResolveNext]_vars

\* ------------------------------------------------------------------------
\* Specification of two requests to the students router side by side: the
\* creation, the change, the deletion and the enrollment of students
\* (routers/students.py)
\* ------------------------------------------------------------------------

\* enroll_id_card stores what it read unless the reading is invalid and its
\* confidence is below this
id_card_enroll_confidence == Hundredths(50)

RollNumbers == {"CS2024003", "CS009"}
Emails == {"c@college.edu", "z@college.edu"}
Names == {"Asha Rao", "Asha R. Rao"}

\* The students table when the service starts, with the columns the students
\* router reads and writes: the students of SeedStudents, of whom student 2
\* has id-card data on file as well.  A template column is TRUE when it is
\* not NULL.
EnrollSeedStudents ==
    [ i \in {1, 2, 3} |->
        [ id               |-> i,
          roll_no          |-> <<"CS001", "CS002", "CS2024003">>[i],
          email            |-> <<"a@college.edu", "b@college.edu",
                                 "c@college.edu">>[i],
          name             |-> "Asha Rao",
          department       |-> "CSE",
          college_id       |-> "C1",
          updated_at       |-> Epoch - 15,
          face_embedding   |-> SeedStudents[i].face_embedding,
          fingerprint_hash |-> SeedStudents[i].fingerprint_hash,
          id_card_data     |-> i = 2,
          is_enrolled      |-> SeedStudents[i].is_enrolled ] ]

\* the Student(...) row create_student adds: no template, not enrolled
NewStudent(id, roll_no, email, name, department, college_id) ==
    [ id               |-> id,
      roll_no          |-> roll_no,
      email            |-> email,
      name             |-> name,
      department       |-> department,
      college_id       |-> college_id,
      updated_at       |-> now,
      face_embedding   |-> FALSE,
      fingerprint_hash |-> FALSE,
      id_card_data     |-> FALSE,
      is_enrolled      |-> FALSE ]

\* generate_embedding_from_base64 returns an embedding: the image decodes
\* and, when the library is there, shows a face
EmbeddingGenerated(f) ==
    /\ f.fault = "none"
    /\ f.library => f.face_found

\* _update_enrollment_status counting the id-card data as well
update_enrollment_status_CountsIdCard(student) ==
    [ student EXCEPT !.is_enrolled =
        student.face_embedding \/ student.fingerprint_hash
            \/ student.id_card_data ]

\* _update_enrollment_status
update_enrollment_status(student) ==
    [ student EXCEPT !.is_enrolled =
        student.face_embedding \/ student.fingerprint_hash ]

\* the StudentEnrollment an enroll handler answers with (200), read off the
\* refreshed row
EnrollmentResponse(student) ==
    [ http                 |-> 200,
      student_id           |-> student.id,
      face_enrolled        |-> student.face_embedding,
      fingerprint_enrolled |-> student.fingerprint_hash,
      id_card_enrolled     |-> student.id_card_data ]

\* StudentResponse.from_orm_with_biometrics, with the status of the route:
\* 201 for create_student, 200 for update_student
StudentResponse(student, http) ==
    [ http            |-> http,
      student_id      |-> student.id,
      roll_no         |-> student.roll_no,
      email           |-> student.email,
      name            |-> student.name,
      department      |-> student.department,
      college_id      |-> student.college_id,
      updated_at      |-> student.updated_at,
      is_enrolled     |-> student.is_enrolled,
      has_face        |-> student.face_embedding,
      has_fingerprint |-> student.fingerprint_hash,
      has_id_card     |-> student.id_card_data ]

\* the face images sent for enrollment: one of each kind
EnrollFaceImages ==
    { f \in FaceSamples :
        /\ f.supplied
        /\ f.reading \in {Hundredths(10), Hundredths(70)}
                \cup { x \in {Hundredths(61)} : f.fault # "none" \/ ~f.face_found } }

\* extract_id_data finds a roll number of letters followed by digits only
\* where there are two to four letters and four to ten digits (roll_patterns).
\* The roll numbers of the students table are two letters followed by
\* digits: seven in "CS2024003", three in the others.
roll_patterns_find(roll_no) ==
    LET letters == 2
        digits  == IF roll_no = "CS2024003" THEN 7 ELSE 3
    IN  letters \in 2..4 /\ digits \in 4..10

\* the id-card images sent for enrollment: the name they are compared with
\* is the student's, "Asha Rao", of two parts
EnrollIdCardImages ==
    { c \in IdCardSamples :
        c.supplied /\ (c.name_read => c.expected_parts = 2) }

\* a request to the students router with the fields it does not carry at
\* their one value
StudentRequest(kind, student_id) ==
    [ kind           |-> kind,
      student_id     |-> student_id,
      session_id     |-> 0,
      factors        |-> NoFactors,
      attendance_id  |-> 0,
      status         |-> "present",
      roll_no        |-> "CS2024003",
      email          |-> "c@college.edu",
      name           |-> "Asha Rao",
      department     |-> "CSE",
      college_id     |-> "C1",
      face_image     |-> NoPayloads.face,
      id_card_image  |-> NoPayloads.id_card,
      same_as_stored |-> FALSE ]

\* POST /students/ with a roll number and an email that are taken (student
\* 3 has them) or free
CreateStudentRequests ==
    { [ StudentRequest("create_student", 0) EXCEPT
            !.roll_no = n, !.email = e ] : n \in RollNumbers, e \in Emails }

\* PATCH /students/{student_id}.  Each of name, email, department and
\* college_id is left out of the body (Unset), set to null (None) or set to
\* a value: the one the row has or another
\* (model_dump(exclude_unset=True)).  The email and the name are combined
\* with each other, the department and the college_id with each other, and
\* one field at a time is null.
UpdateStudentRequests ==
    LET body(i, e, n, d, c) ==
            [ StudentRequest("update_student", i) EXCEPT
                !.email = e, !.name = n, !.department = d, !.college_id = c ]
    IN  { body(i, e, n, Unset, Unset) :
            i \in {2, 3}, e \in {Unset} \cup Emails,
            n \in {Unset, "Asha R. Rao"} }
        \cup { body(i, Unset, Unset, d, c) :
                 i \in {2, 3}, d \in {Unset, "CSE", "ECE"},
                 c \in {Unset, "C2"} }
        \cup { body(i, None, Unset, Unset, Unset) : i \in {2, 3} }
        \cup { body(i, Unset, None, Unset, Unset) : i \in {2, 3} }
        \cup { body(i, Unset, Unset, None, Unset) : i \in {2, 3} }
        \cup { body(i, Unset, Unset, Unset, None) : i \in {2, 3} }

\* POST /students/{student_id}/enroll/face.  same_as_stored says that the
\* payload is the one the stored template was made from and yields the same
\* column value again: the embedding the library computes from the same
\* image, the JSON of the same OCR reading.  (A fingerprint hash is salted
\* and never the same again.)
EnrollFaceRequests ==
    { q \in { [ StudentRequest("enroll_face", i) EXCEPT
                    !.face_image = f, !.same_as_stored = same ] :
                i \in {2, 3}, f \in EnrollFaceImages, same \in BOOLEAN } :
        q.same_as_stored =>
            /\ EnrollSeedStudents[q.student_id].face_embedding
            /\ q.face_image.fault = "none"
            /\ q.face_image.library /\ q.face_image.face_found }

\* POST /students/{student_id}/enroll/id-card.  The reading of an image
\* holds the student's roll number exactly only when extract_id_data can
\* find that roll number at all.
EnrollIdCardRequests ==
    { q \in { [ StudentRequest("enroll_id_card", i) EXCEPT
                    !.id_card_image = c, !.same_as_stored = same ] :
                i \in {2, 3}, c \in EnrollIdCardImages, same \in BOOLEAN } :
        /\ q.id_card_image.roll_no = "exact" =>
                roll_patterns_find(EnrollSeedStudents[q.student_id].roll_no)
        /\ q.same_as_stored =>
                /\ EnrollSeedStudents[q.student_id].id_card_data
                /\ q.id_card_image.fault = "none" }

\* the requests to the students router; student 4 does not exist
StudentRequests ==
    CreateStudentRequests \cup UpdateStudentRequests
    \cup EnrollFaceRequests \cup EnrollIdCardRequests
    \cup { StudentRequest(k, i) :
             k \in {"delete_student", "enroll_fingerprint",
                    "generate_demo_fingerprint"}, i \in {2, 3, 4} }
    \cup { StudentRequest("update_student", 4),
           [ StudentRequest("enroll_face", 4) EXCEPT
                !.face_image = CHOOSE f \in EnrollFaceImages :
                                    f.fault = "undecodable" ],
           [ StudentRequest("enroll_id_card", 4) EXCEPT
                !.id_card_image = CHOOSE c \in EnrollIdCardImages :
                                    c.fault = "undecodable" ] }

\* select(Student) in the session of request r: the committed rows with r's
\* own flushed writes
VisibleStudents(r) ==
    { students[i] : i \in { j \in DOMAIN students :
                              \A w \in WritesOf(r, "students") : w.id # j } }
    \cup { w.row : w \in { x \in WritesOf(r, "students") : ~x.deleted } }

\* the rows of the students table other open sessions have inserted or
\* updated and not committed
StudentsPendingElsewhere(r) ==
    { w.row : w \in UNION { { x \in WritesOf(o, "students") : ~x.deleted } :
                            o \in { y \in Requests : y # r /\ Live(y) } } }

\* the id the students sequence gives next: a sequence is not rolled back,
\* so every student a request has inserted took one
NextStudentId ==
    Cardinality(DOMAIN EnrollSeedStudents) + 1
    + Cardinality({ o \in Requests : req[o].kind = "create_student"
                                        /\ loc[o].student.id # 0 })

\* a request arrives at the students router
StartStudentRequest(r) ==
    /\ NextSlot(r)
    /\ \E q \in StudentRequests :
            /\ req' = [req EXCEPT ![r] = q]
            /\ pc' = [pc EXCEPT ![r] =
                        IF q.kind = "create_student" THEN "check_roll_no"
                        ELSE "select_student"]
    /\ prior' = [prior EXCEPT ![r] = { p \in Requests : pc[p] = "closed" }]
    /\ UNCHANGED <<vvars, cvars, dbvars, loc, resp, raced>>

\* create_student: the select on roll_no and its 400
CreateCheckRollNo(r) ==
    /\ pc[r] = "check_roll_no"
    /\ IF \E row \in VisibleStudents(r) : row.roll_no = req[r].roll_no
       THEN /\ resp' = [resp EXCEPT ![r].exception = "HTTPException 400"]
            /\ pc' = [pc EXCEPT ![r] = "raise"]
       ELSE /\ pc' = [pc EXCEPT ![r] = "check_email"]
            /\ UNCHANGED resp
    /\ UNCHANGED <<vvars, cvars, dbvars, req, loc, prior, raced>>

\* create_student: the select on email and its 400
CreateCheckEmail(r) ==
    /\ pc[r] = "check_email"
    /\ IF \E row \in VisibleStudents(r) : row.email = req[r].email
       THEN /\ resp' = [resp EXCEPT ![r].exception = "HTTPException 400"]
            /\ pc' = [pc EXCEPT ![r] = "raise"]
       ELSE /\ pc' = [pc EXCEPT ![r] = "insert_student"]
            /\ UNCHANGED resp
    /\ UNCHANGED <<vvars, cvars, dbvars, req, loc, prior, raced>>

\* create_student: Student(..., is_enrolled=False), db.add, flush and
\* refresh; answers 201.  The INSERT waits while another open session holds
\* an uncommitted row with the same roll_no or email.
CreateInsert(r) ==
    /\ pc[r] = "insert_student"
    /\ LET row == NewStudent(NextStudentId, req[r].roll_no, req[r].email,
                             req[r].name, req[r].department,
                             req[r].college_id)
       IN  /\ \A other \in StudentsPendingElsewhere(r) :
                other.roll_no # row.roll_no /\ other.email # row.email
           /\ tx' = [tx EXCEPT ![r].row_writes =
                        @ \cup { RowWrite("students", row.id, FALSE, row) }]
           /\ loc' = [loc EXCEPT ![r].student = row]
           /\ resp' = [resp EXCEPT ![r].result = StudentResponse(row, 201)]
    /\ pc' = [pc EXCEPT ![r] = "return"]
    /\ UNCHANGED <<vvars, cvars, students, sessions, attendances, anomaly_logs,
                   next_attendance_id, next_anomaly_id, req, prior, raced>>

\* update_student, delete_student and the four enroll handlers: the select
\* of the student and the 404
StudentSelect(r) ==
    /\ pc[r] = "select_student"
    /\ LET found == { row \in VisibleStudents(r) : row.id = req[r].student_id }
       IN  IF found = {}
           THEN /\ resp' = [resp EXCEPT ![r].exception = "HTTPException 404"]
                /\ pc' = [pc EXCEPT ![r] = "raise"]
                /\ UNCHANGED loc
           ELSE /\ loc' = [loc EXCEPT ![r].student = CHOOSE row \in found : TRUE]
                /\ pc' = [pc EXCEPT ![r] = req[r].kind]
                /\ UNCHANGED resp
    /\ UNCHANGED <<vvars, cvars, dbvars, req, prior, raced>>

\* The flush of the student the handler has assigned to, and the refresh.
\* Nothing is sent when no column has a new value.  Otherwise the UPDATE,
\* which sets updated_at as well (onupdate=func.now()), waits while another open session holds an uncommitted UPDATE or DELETE of
\* the row, or of a row with the email the UPDATE sets, or has written that
\* email itself; against a committed row with that email it fails with
\* IntegrityError, which nothing catches.
FlushStudent(r, student, changes, response) ==
    LET taken == { i \in DOMAIN students :
                     i # student.id /\ students[i].email = student.email }
    IN  IF ~changes
        THEN /\ resp' = [resp EXCEPT ![r].result = response]
             /\ pc' = [pc EXCEPT ![r] = "return"]
             /\ UNCHANGED tx
        ELSE /\ ~WrittenElsewhere(r, "students", student.id)
             /\ \A i \in taken : ~WrittenElsewhere(r, "students", i)
             /\ \A other \in StudentsPendingElsewhere(r) :
                    other.email # student.email
             /\ IF taken # {}
                THEN /\ resp' = [resp EXCEPT ![r].exception = "IntegrityError"]
                     /\ pc' = [pc EXCEPT ![r] = "raise"]
                     /\ UNCHANGED tx
                ELSE /\ tx' = [tx EXCEPT ![r].row_writes =
                                { w \in @ : ~(w.table = "students"
                                                /\ w.id = student.id) }
                                \cup { RowWrite("students", student.id, FALSE,
                                         [student EXCEPT !.updated_at = now]) }]
                     /\ resp' = [resp EXCEPT ![r].result = response]
                     /\ pc' = [pc EXCEPT ![r] = "return"]

\* update_student: setattr for every field the body sets, flush and
\* refresh.  The four columns are NOT NULL: an UPDATE that sets one of them
\* to NULL raises IntegrityError, which nothing catches, before it waits for
\* any lock.
UpdateStudentFlush(r) ==
    /\ pc[r] = "update_student"
    /\ LET set(field, old) == IF field # Unset THEN field ELSE old
           assigned == [ loc[r].student EXCEPT
                           !.email      = set(req[r].email, @),
                           !.name       = set(req[r].name, @),
                           !.department = set(req[r].department, @),
                           !.college_id = set(req[r].college_id, @) ]
           changes  == assigned # loc[r].student
           student  == IF changes THEN [assigned EXCEPT !.updated_at = now]
                       ELSE assigned
       IN  IF None \in {assigned.email, assigned.name, assigned.department,
                        assigned.college_id}
           THEN /\ resp' = [resp EXCEPT ![r].exception = "IntegrityError"]
                /\ pc' = [pc EXCEPT ![r] = "raise"]
                /\ UNCHANGED tx
           ELSE FlushStudent(r, student, changes, StudentResponse(student, 200))
    /\ UNCHANGED <<vvars, cvars, students, sessions, attendances, anomaly_logs,
                   next_attendance_id, next_anomaly_id, req, loc, prior, raced>>

\* delete_student: db.delete(student) and the flush; answers 204
DeleteStudentFlush(r) ==
    /\ pc[r] = "delete_student"
    /\ DeleteParent(r, "students", loc[r].student.id, loc[r].student)
    /\ UNCHANGED <<vvars, cvars, students, sessions, attendances, anomaly_logs,
                   next_attendance_id, next_anomaly_id, req, loc, prior, raced>>

\* enroll_face: the embedding, the 400 when there is none, the assignment,
\* _update_enrollment_status, flush and refresh
EnrollFace(r) ==
    /\ pc[r] = "enroll_face"
    /\ IF ~EmbeddingGenerated(req[r].face_image)
       THEN /\ resp' = [resp EXCEPT ![r].exception = "HTTPException 400"]
            /\ pc' = [pc EXCEPT ![r] = "raise"]
            /\ UNCHANGED tx
       ELSE LET student == update_enrollment_status(
                              [loc[r].student EXCEPT !.face_embedding = TRUE])
            IN  FlushStudent(r, student,
                             ~req[r].same_as_stored \/ student # loc[r].student,
                             [EnrollmentResponse(student)
                                EXCEPT !.face_enrolled = TRUE])
    /\ UNCHANGED <<vvars, cvars, students, sessions, attendances, anomaly_logs,
                   next_attendance_id, next_anomaly_id, req, loc, prior, raced>>

\* enroll_fingerprint: the salted hash of the token, the assignment,
\* _update_enrollment_status, flush and refresh
EnrollFingerprint(r) ==
    /\ pc[r] = "enroll_fingerprint"
    /\ LET student == update_enrollment_status(
                          [loc[r].student EXCEPT !.fingerprint_hash = TRUE])
       IN  FlushStudent(r, student, TRUE,
                        [EnrollmentResponse(student)
                            EXCEPT !.fingerprint_enrolled = TRUE])
    /\ UNCHANGED <<vvars, cvars, students, sessions, attendances, anomaly_logs,
                   next_attendance_id, next_anomaly_id, req, loc, prior, raced>>

\* enroll_id_card: validate_id_card, the 400 when the reading is invalid
\* and below 0.5, the assignment of what was read, _update_enrollment_status,
\* flush and refresh
EnrollIdCard(r) ==
    /\ pc[r] = "enroll_id_card"
    /\ LET read == validate_id_card(req[r].id_card_image)
       IN  IF ~read.verified /\ read.confidence < id_card_enroll_confidence
           THEN /\ resp' = [resp EXCEPT ![r].exception = "HTTPException 400"]
                /\ pc' = [pc EXCEPT ![r] = "raise"]
                /\ UNCHANGED tx
           ELSE LET student == update_enrollment_status(
                                  [loc[r].student EXCEPT !.id_card_data = TRUE])
                IN  FlushStudent(r, student,
                                 ~req[r].same_as_stored
                                    \/ student # loc[r].student,
                                 [EnrollmentResponse(student)
                                    EXCEPT !.id_card_enrolled = TRUE])
    /\ UNCHANGED <<vvars, cvars, students, sessions, attendances, anomaly_logs,
                   next_attendance_id, next_anomaly_id, req, loc, prior, raced>>

\* generate_demo_fingerprint: the demo token of the student, its salted
\* hash, the assignment, _update_enrollment_status, flush and refresh
GenerateDemoFingerprint(r) ==
    /\ pc[r] = "generate_demo_fingerprint"
    /\ LET student == update_enrollment_status(
                          [loc[r].student EXCEPT !.fingerprint_hash = TRUE])
       IN  FlushStudent(r, student, TRUE,
                        [EnrollmentResponse(student)
                            EXCEPT !.fingerprint_enrolled = TRUE])
    /\ UNCHANGED <<vvars, cvars, students, sessions, attendances, anomaly_logs,
                   next_attendance_id, next_anomaly_id, req, loc, prior, raced>>

\* the students of EnrollSeedStudents are on record, and the Attendance
\* record of student 2
EnrollInit ==
    /\ IdleVerify
    /\ IdleChecks
    /\ now = Epoch
    /\ students = EnrollSeedStudents
    /\ sessions = SeedSessions
    /\ attendances = {SeedAttendance}
    /\ anomaly_logs = {}
    /\ next_attendance_id = 2
    /\ next_anomaly_id = 1
    /\ IdleRequests

\* two requests to the students router, from their arrival to the end of
\* their database sessions
EnrollNext ==
    \E r \in {1, 2} :
        \/ StartStudentRequest(r)
        \/ CreateCheckRollNo(r)
        \/ CreateCheckEmail(r)
        \/ CreateInsert(r)
        \/ StudentSelect(r)
        \/ UpdateStudentFlush(r)
        \/ DeleteStudentFlush(r)
        \/ EnrollFace(r)
        \/ EnrollFingerprint(r)
        \/ EnrollIdCard(r)
        \/ GenerateDemoFingerprint(r)
        \/ Close(r)

SpecEnroll == EnrollInit /\ [][EnrollNext]_vars

\* ------------------------------------------------------------------------
\* Specification of one mark attempt for any pair of a student and a session
\* ------------------------------------------------------------------------

\* POST /attendance/mark for every pair of a student (4 does not exist, 3 is
\* not enrolled) and a session (3 does not exist, 2 is not active), with no
\* payload or with a face image
AnyPairRequests ==
    [ kind          : {"mark"},
      student_id    : {1, 2, 3, 4},
      session_id    : {1, 2, 3},
      factors       : {NoFactors, FaceOnly},
      attendance_id : {0},
      status        : {"present"} ]

\* the Attendance records that may be on file: of student 1 for session 2,
\* marked while that session was active, and of student 2 for either session
AnyPairRecords ==
    { [SeedAttendance EXCEPT !.id = 1, !.student_id = 1, !.session_id = 2],
      [SeedAttendance EXCEPT !.id = 2, !.student_id = 2, !.session_id = 1],
      [SeedAttendance EXCEPT !.id = 3, !.student_id = 2, !.session_id = 2] }

\* a request arrives: POST /attendance/mark
StartMarkAnyPair(r) ==
    /\ NextSlot(r)
    /\ \E q \in AnyPairRequests : req' = [req EXCEPT ![r] = q]
    /\ pc' = [pc EXCEPT ![r] = "get_student"]
    /\ prior' = [prior EXCEPT ![r] = { p \in Requests : pc[p] = "closed" }]
    /\ UNCHANGED <<vvars, cvars, dbvars, loc, resp, raced>>

AnyPairInit ==
    /\ IdleVerify
    /\ IdleChecks
    /\ now = Epoch
    /\ students = SeedStudents
    /\ sessions = SeedSessions
    /\ attendances \in SUBSET AnyPairRecords
    /\ anomaly_logs = {}
    /\ next_attendance_id = 4
    /\ next_anomaly_id = 1
    /\ IdleRequests

\* one POST /attendance/mark, from its arrival to the end of its session
AnyPairNext ==
    \E r \in {1} :
        \/ StartMarkAnyPair(r)
        \/ MarkGetStudent(r)
        \/ MarkGetSession(r)
        \/ MarkCheckExisting(r)
        \/ MarkLogAnomaly(r)
        \/ MarkInsert(r)
        \/ Close(r)

SpecAnyPair == AnyPairInit /\ [][AnyPairNext]_vars

\* ------------------------------------------------------------------------
\* Properties of the verification engine (checked under SpecVerify)
\* ------------------------------------------------------------------------

\* A factor is applicable when the caller supplied a payload for it and the
\* student has the template it is compared with.  The document is compared
\* with the student's roll number and name, which every student row has.
FaceApplicable        == vargs.face_image_base64 /\ vargs.stored_face_embedding
DocumentApplicable    == vargs.id_card_image_base64
FingerprintApplicable == vargs.fingerprint_token /\ vargs.stored_fingerprint_hash

ApplicableCount ==
    (IF FaceApplicable THEN 1 ELSE 0)
    + (IF DocumentApplicable THEN 1 ELSE 0)
    + (IF FingerprintApplicable THEN 1 ELSE 0)

\* what the comparators reported for the applicable factors
FacePassed        == FaceApplicable /\ vargs.face_out.verified
DocumentPassed    == DocumentApplicable /\ vargs.id_out.verified
FingerprintPassed == FingerprintApplicable /\ vargs.fp_out

PassedFactors ==
    (IF FacePassed THEN 1 ELSE 0)
    + (IF DocumentPassed THEN 1 ELSE 0)
    + (IF FingerprintPassed THEN 1 ELSE 0)

\* C4: a verify_student call with no applicable factor returns success=false,
\* anomaly_detected=true and verification_method "none".
C4_NoFactorNeverSucceeds ==
    (vdone /\ ApplicableCount = 0) =>
        /\ ~vresult.success
        /\ vresult.anomaly_detected
        /\ vresult.verification_method = "none"

\* a call that supplied a face image for a student without a face embedding
\* and nothing else has returned
C4_Witness ==
    /\ vdone
    /\ ApplicableCount = 0
    /\ vargs.face_image_base64
    /\ ~vargs.stored_face_embedding

\* C5: with face as the only applicable factor, success is true exactly when
\* the face comparator reported verified=true with a confidence of at least
\* min_face_confidence.
C5_SingleFaceNeedsThreshold ==
    (vdone /\ FaceApplicable /\ ~DocumentApplicable /\ ~FingerprintApplicable) =>
        (vresult.success <=>
            (vargs.face_out.verified
             /\ vargs.face_out.confidence >= min_face_confidence))

\* a verified face just below the threshold was the only factor and failed
C5_Witness ==
    /\ vdone
    /\ FaceApplicable /\ ~DocumentApplicable /\ ~FingerprintApplicable
    /\ vargs.face_out.verified
    /\ vargs.face_out.confidence = Hundredths(79)
    /\ ~vresult.success

\* C6: with exactly two applicable factors, success is true exactly when both
\* were reported verified; one pass and one fail gives success=false and the
\* message "... 1/2 passed".
C6_TwoFactorsBothMustPass ==
    (vdone /\ ApplicableCount = 2) =>
        /\ vresult.success <=> (PassedFactors = 2)
        /\ PassedFactors = 1 =>
            /\ ~vresult.success
            /\ vresult.message = "Two-factor verification: 1/2 passed"

\* face passed and the fingerprint did not, with no document
C6_Witness ==
    /\ vdone
    /\ ApplicableCount = 2
    /\ FacePassed
    /\ FingerprintApplicable /\ ~FingerprintPassed
    /\ ~vresult.success

\* the modalities whose comparator reported verified=false, in the order
\* face, document, fingerprint
FailingModalities ==
    (IF ~vargs.face_out.verified THEN <<"face">> ELSE <<>>)
    \o (IF ~vargs.id_out.verified THEN <<"id_card">> ELSE <<>>)
    \o (IF ~vargs.fp_out THEN <<"fingerprint">> ELSE <<>>)

\* C7: with all three factors applicable, success is true exactly when all
\* three were reported verified, and on failure the anomaly reason lists
\* exactly the failing modalities in the order face, document, fingerprint.
C7_ThreeFactorsAllMustPass ==
    (vdone /\ ApplicableCount = 3) =>
        /\ vresult.success <=> (PassedFactors = 3)
        /\ ~vresult.success =>
            vresult.anomaly_reason =
                "Multi-factor verification failed: "
                \o Join(FailingModalities, ", ")

\* three factors ran; the document and the fingerprint failed
C7_Witness ==
    /\ vdone
    /\ ApplicableCount = 3
    /\ FacePassed /\ ~DocumentPassed /\ ~FingerprintPassed
    /\ vresult.anomaly_reason =
            "Multi-factor verification failed: id_card, fingerprint"

\* C8: anomaly_detected is true exactly when success is false, and
\* anomaly_reason is non-empty exactly when anomaly_detected is true.
C8_AnomalyIffFailure ==
    vdone =>
        /\ vresult.anomaly_detected <=> ~vresult.success
        /\ (vresult.anomaly_reason # None /\ vresult.anomaly_reason # "")
                <=> vresult.anomaly_detected

\* a single fingerprint factor failed and the result carries its reason
C8_Witness ==
    /\ vdone
    /\ ApplicableCount = 1
    /\ FingerprintApplicable
    /\ ~vresult.success
    /\ vresult.anomaly_reason = "Single factor verification failed: fingerprint"

\* C9: for comparator confidences in [0,1] and any set of applicable factors,
\* overall_confidence lies in [0,1].
C9_OverallConfidenceInUnitInterval ==
    vdone => (0 <= vresult.overall_confidence /\ vresult.overall_confidence <= ONE)

\* all three factors ran with the highest confidences
C9_Witness ==
    /\ vdone
    /\ ApplicableCount = 3
    /\ vargs.face_out.confidence = Hundredths(100)
    /\ vargs.id_out.confidence = Hundredths(100)
    /\ vargs.fp_out
    /\ vresult.overall_confidence = TenThousandths(9900)

\* the example of the specification: face verified with confidence 0.92, a
\* matching fingerprint, no document
IsExampleCall ==
    /\ vargs.stored_face_embedding /\ vargs.stored_fingerprint_hash
    /\ vargs.face_image_base64 /\ vargs.fingerprint_token
    /\ ~vargs.id_card_image_base64
    /\ vargs.face_out = [verified |-> TRUE, confidence |-> Hundredths(92)]
    /\ vargs.fp_out

\* C10: overall_confidence is 0.50 x face confidence + 0.30 x document
\* confidence + 0.20 x (0.95 if the fingerprint matched, else 0) over the
\* applicable factors, with no renormalisation; the example call yields
\* "face+fingerprint", 0.65 and success=true.
C10_WeightedSumNotRenormalised ==
    vdone =>
        /\ vresult.overall_confidence =
              (IF FaceApplicable THEN 50 * vargs.face_out.confidence ELSE 0)
            + (IF DocumentApplicable THEN 30 * vargs.id_out.confidence ELSE 0)
            + (IF FingerprintPassed THEN 20 * Hundredths(95) ELSE 0)
        /\ IsExampleCall =>
            /\ vresult.verification_method = "face+fingerprint"
            /\ vresult.overall_confidence = TenThousandths(6500)
            /\ vresult.success

\* the example call has returned
C10_Witness ==
    /\ vdone
    /\ IsExampleCall
    /\ vresult.overall_confidence = TenThousandths(6500)

\* the modalities, in the order verify_student runs them
Modalities == {"face", "id_card", "fingerprint"}

\* the caller supplied a payload for the modality
Supplied(m) ==
    CASE m = "face"        -> vargs.face_image_base64
      [] m = "id_card"     -> vargs.id_card_image_base64
      [] m = "fingerprint" -> vargs.fingerprint_token

\* the student has an enrolled template for the modality, as the
\* enrollment status reports it (has_face, has_id_card, has_fingerprint)
EnrolledTemplate(m) ==
    CASE m = "face"        -> vstudent.face_embedding
      [] m = "id_card"     -> vstudent.id_card_data
      [] m = "fingerprint" -> vstudent.fingerprint_hash

\* what the modality's comparator reports for the payload
Reported(m) ==
    CASE m = "face"        -> vargs.face_out.verified
      [] m = "id_card"     -> vargs.id_out.verified
      [] m = "fingerprint" -> vargs.fp_out

\* the tier the result's message names
ResultTier ==
    CASE vresult.message = "No verification data provided" -> 0
      [] vresult.message \in { "Single factor (face) verification",
                               "Single factor (id_card) verification",
                               "Single factor (fingerprint) verification" } -> 1
      [] vresult.message \in { "Two-factor verification: 2/2 passed",
                               "Two-factor verification: 1/2 passed",
                               "Two-factor verification: 0/2 passed" } -> 2
      [] vresult.message \in { "Three-factor verification passed",
                               "Three-factor verification failed" } -> 3
      [] OTHER -> -1

\* payload supplied and template enrolled, for all three modalities alike
SuppliedAndEnrolled == {m \in Modalities : Supplied(m) /\ EnrolledTemplate(m)}

\* payload supplied and, for the face and the fingerprint, the stored
\* template; the document is compared with the roll number and the name
SuppliedAndComparable ==
    {m \in Modalities : Supplied(m) /\ (m = "id_card" \/ EnrolledTemplate(m))}

\* C11 as stated: each of the three factors is applicable if and only if its
\* payload was supplied and the student has an enrolled template for that
\* modality; any other factor is skipped: its comparator is not invoked and it
\* is not counted in the tier.
C11_FactorNeedsPayloadAndTemplate ==
    vdone =>
        /\ vinvoked = SuppliedAndEnrolled
        /\ ResultTier = Cardinality(SuppliedAndEnrolled)

\* C11 amended: the face and the fingerprint are applicable if and only if
\* their payload was supplied and the student has the stored template; the
\* document is applicable if and only if its image was supplied, whether or
\* not the student has enrolled id-card data.  A factor that is not applicable
\* is skipped: its comparator is not invoked, it is not counted in the tier,
\* and whatever its comparator would report does not make the call fail.
C11_DocumentNeedsPayloadOnly ==
    vdone =>
        /\ vinvoked = SuppliedAndComparable
        /\ ResultTier = Cardinality(SuppliedAndComparable)
        /\ vresult.success <=>
              /\ SuppliedAndComparable # {}
              /\ \A m \in SuppliedAndComparable : Reported(m)
              /\ SuppliedAndComparable = {"face"} =>
                     vargs.face_out.confidence >= min_face_confidence

\* a student with a fingerprint hash only, no id-card data and no face
\* embedding, sent a face image and a document: the document alone was run,
\* and the call succeeded although the face comparator would have rejected
C11_Witness ==
    /\ vdone
    /\ vargs.face_image_base64 /\ ~vstudent.face_embedding
    /\ ~vargs.face_out.verified
    /\ vargs.id_card_image_base64 /\ ~vstudent.id_card_data
    /\ ~vargs.fingerprint_token /\ vstudent.fingerprint_hash
    /\ vinvoked = {"id_card"}
    /\ ResultTier = 1
    /\ vresult.success

\* the method string for each set of applicable factors
ExpectedMethod ==
    CASE FaceApplicable /\ DocumentApplicable /\ FingerprintApplicable
            -> "face+id_card+fingerprint"
      [] FaceApplicable /\ DocumentApplicable /\ ~FingerprintApplicable
            -> "face+id_card"
      [] FaceApplicable /\ ~DocumentApplicable /\ FingerprintApplicable
            -> "face+fingerprint"
      [] ~FaceApplicable /\ DocumentApplicable /\ FingerprintApplicable
            -> "id_card+fingerprint"
      [] FaceApplicable /\ ~DocumentApplicable /\ ~FingerprintApplicable
            -> "face"
      [] ~FaceApplicable /\ DocumentApplicable /\ ~FingerprintApplicable
            -> "id_card"
      [] ~FaceApplicable /\ ~DocumentApplicable /\ FingerprintApplicable
            -> "fingerprint"
      [] OTHER -> "none"

\* C12: verification_method is the names of the applicable factors joined by
\* "+" in the fixed order face, id_card, fingerprint, and "none" when no
\* factor is applicable.
C12_MethodNamesApplicableFactors ==
    vdone => vresult.verification_method = ExpectedMethod

\* a call that ran the document and the fingerprint but not the face, whose
\* image came for a student without a face embedding, has returned
C12_Witness ==
    /\ vdone
    /\ vargs.face_image_base64 /\ ~FaceApplicable
    /\ DocumentApplicable /\ FingerprintApplicable
    /\ vresult.verification_method = "id_card+fingerprint"

\* the document is the only applicable factor and its comparator rejected
DocumentAloneRejected ==
    /\ vdone
    /\ DocumentApplicable /\ ~FaceApplicable /\ ~FingerprintApplicable
    /\ ~vargs.id_out.verified

\* C18 as stated: when the document is the only applicable factor and its
\* comparator reports matched=false, verify_student returns success=false
\* with anomaly reason "single-factor verification failed: id_document".
C18_ReasonNamesIdDocument ==
    DocumentAloneRejected =>
        /\ ~vresult.success
        /\ vresult.anomaly_reason = "single-factor verification failed: id_document"

\* C18 amended: when the document is the only applicable factor and its
\* comparator reports matched=false, verify_student returns success=false
\* with anomaly reason "Single factor verification failed: id_card"; a
\* single non-face factor succeeds iff its comparator reports verified=true,
\* and a failure reason names the failing modality, "id_card" or
\* "fingerprint".
C18_SingleNonFaceFactor ==
    /\ DocumentAloneRejected =>
            /\ ~vresult.success
            /\ vresult.anomaly_reason = "Single factor verification failed: id_card"
    /\ (vdone /\ ApplicableCount = 1 /\ DocumentApplicable) =>
            /\ vresult.success <=> vargs.id_out.verified
            /\ ~vresult.success =>
                    vresult.anomaly_reason = "Single factor verification failed: id_card"
    /\ (vdone /\ ApplicableCount = 1 /\ FingerprintApplicable) =>
            /\ vresult.success <=> vargs.fp_out
            /\ ~vresult.success =>
                    vresult.anomaly_reason =
                        "Single factor verification failed: fingerprint"

\* a student enrolled with face and fingerprint and without id-card data sent
\* only an id-card image, which the comparator rejected with confidence 0.1
C18_Witness ==
    /\ DocumentAloneRejected
    /\ vstudent.face_embedding /\ vstudent.fingerprint_hash
    /\ ~vstudent.id_card_data
    /\ ~vargs.face_image_base64 /\ ~vargs.fingerprint_token
    /\ vargs.id_out.confidence = Hundredths(10)
    /\ ~vresult.success
    /\ vresult.anomaly_reason = "Single factor verification failed: id_card"

\* the face comparator reported verified=true with a confidence below the
\* minimum, for a face that is an applicable factor
WeakFaceMatch ==
    /\ FaceApplicable
    /\ vargs.face_out.verified
    /\ vargs.face_out.confidence < min_face_confidence

\* every applicable factor other than the face was reported verified
OthersPassed ==
    /\ DocumentApplicable => vargs.id_out.verified
    /\ FingerprintApplicable => vargs.fp_out

\* C27: the minimum face confidence is applied in the single-factor tier
\* only: a face reported verified with a confidence below the minimum fails
\* when the face is the only applicable factor, and gives success=true as
\* soon as every other applicable factor (one or two) is reported verified
\* as well.
C27_ThresholdInSingleTierOnly ==
    (vdone /\ WeakFaceMatch) =>
        /\ ApplicableCount = 1 => ~vresult.success
        /\ ApplicableCount >= 2 => (vresult.success <=> OthersPassed)

\* a face verified at 0.10 and a verified fingerprint, no document: success
C27_Witness ==
    /\ vdone
    /\ WeakFaceMatch /\ vargs.face_out.confidence = Hundredths(10)
    /\ FingerprintApplicable /\ vargs.fp_out
    /\ ~DocumentApplicable
    /\ vresult.success

\* a face verified at 0.79 with a verified document and a verified
\* fingerprint: success
C27_WitnessThreeFactors ==
    /\ vdone
    /\ WeakFaceMatch /\ vargs.face_out.confidence = Hundredths(79)
    /\ ApplicableCount = 3 /\ OthersPassed
    /\ vresult.success

\* ------------------------------------------------------------------------
\* Properties of the verification engine with its comparators (checked under
\* SpecPayloads)
\* ------------------------------------------------------------------------

\* the factors that are applicable and whose payload the comparator could
\* decode and compare
UsableFactors ==
    { m \in SuppliedAndComparable : vpayloads[m].fault = "none" }

\* C19: when a supplied factor's payload cannot be decoded or its comparator
\* errors internally, that factor is treated as inapplicable (left out of the
\* tier count and of verification_method) and not as a failed factor: an
\* attempt whose other applicable factors all verify still succeeds, and only
\* when no applicable factor remains does the attempt fall into the
\* zero-factor policy.
C19_FaultyFactorIsInapplicable ==
    vdone =>
        /\ ResultTier = Cardinality(UsableFactors)
        /\ (vresult.verification_method = "none") <=> (UsableFactors = {})
        /\ ( /\ UsableFactors # {}
             /\ \A m \in UsableFactors : Reported(m)
             /\ UsableFactors = {"face"} =>
                    vargs.face_out.confidence >= min_face_confidence )
           => vresult.success

\* ------------------------------------------------------------------------
\* Properties of the duplicate-face check (checked under SpecDuplicate)
\* ------------------------------------------------------------------------

\* student a is another student of the college searched, enrolled with a
\* face template
EnrolledElsewhere(a) ==
    /\ a # cargs.claiming_student_id
    /\ students[a].college_id = cargs.college_id
    /\ students[a].face_embedding

\* what the comparator reports for the sample against a's template
ComparatorOn(a) == compare_faces(SampleAgainst(cargs.sample, cargs.reading, a))

\* the sample decodes, shows a face and the comparator matches it to a's
\* template
MatchedTo(a) ==
    /\ cargs.sample.fault = "none"
    /\ cargs.sample.library => cargs.sample.face_found
    /\ ComparatorOn(a).verified

\* a comes before b in the order the rows are returned
ScannedBefore(a, b) ==
    \E i, j \in 1..Len(cargs.scan) :
        i < j /\ cargs.scan[i] = a /\ cargs.scan[j] = b

\* a is the student the sample matches: no other enrolled student of the
\* college matches it better, or as well and earlier in the scan
TheMatch(a) ==
    /\ EnrolledElsewhere(a)
    /\ MatchedTo(a)
    /\ \A b \in DOMAIN students \ {a} :
            (EnrolledElsewhere(b) /\ MatchedTo(b)) =>
                \/ ComparatorOn(b).confidence < ComparatorOn(a).confidence
                \/ /\ ComparatorOn(b).confidence = ComparatorOn(a).confidence
                   /\ ScannedBefore(a, b)

\* C17 as stated: when student A is enrolled with face template T and a
\* different student B of the same college, claiming to be B, submits a
\* sample that the comparator matches to T, check_duplicate_face returns
\* A's reference together with the confidence the comparator reported for
\* that match.
C17_ReturnsReferenceAndConfidence ==
    cdone =>
        \A a \in DOMAIN students :
            TheMatch(a) =>
                /\ cresult.matched_student_id = a
                /\ "confidence" \in DOMAIN cresult
                /\ cresult.confidence = ComparatorOn(a).confidence

\* the part of C17 that holds: in that case check_duplicate_face returns A's
\* id, and the confidence the comparator reported is what find_matching_face
\* hands to it
C17_ReturnsReference ==
    cdone =>
        \A a \in DOMAIN students :
            TheMatch(a) =>
                /\ cresult.matched_student_id = a
                /\ find_matching_face(cargs.sample, cargs.reading, <<a>>)
                     = [ student_id |-> a,
                         confidence |-> ComparatorOn(a).confidence ]

\* student 1, enrolled at the claimant's college, is matched at distance 0.1
\* while student 2, enrolled there too, is not matched: the check returned 1
\* and no confidence
C17_Witness ==
    /\ cdone
    /\ cargs.college_id = students[cargs.claiming_student_id].college_id
    /\ TheMatch(1)
    /\ cargs.sample.library /\ cargs.reading[1] = Hundredths(10)
    /\ EnrolledElsewhere(2) /\ ~MatchedTo(2)
    /\ cresult = [ matched_student_id |-> 1 ]

\* the enrolled students of the college, other than the claimant, that the
\* sample is matched to
Candidates == { a \in DOMAIN students : EnrolledElsewhere(a) /\ MatchedTo(a) }

\* C21: the duplicate-face scan considers only students other than the
\* claimant, of the same college, with a stored face template; among the
\* candidates the comparator matches it returns the one with the highest
\* confidence, on equal confidence the first one encountered, and it returns
\* nothing when no candidate is a match.
C21_BestCandidateFirstOnTies ==
    cdone =>
        /\ Candidates = {} => cresult = NoDuplicate
        /\ Candidates # {} =>
                /\ cresult.matched_student_id \in Candidates
                /\ \A b \in Candidates \ {cresult.matched_student_id} :
                        \/ ComparatorOn(b).confidence
                             < ComparatorOn(cresult.matched_student_id).confidence
                        \/ /\ ComparatorOn(b).confidence
                                = ComparatorOn(cresult.matched_student_id).confidence
                           /\ ScannedBefore(cresult.matched_student_id, b)

\* students 1 and 2 are both candidates matched with the same confidence,
\* the rows came back with 2 before 1, and the check returned 2
C21_Witness ==
    /\ cdone
    /\ Candidates = {1, 2}
    /\ ComparatorOn(1).confidence = ComparatorOn(2).confidence
    /\ cargs.scan = <<2, 1, 3>>
    /\ cresult.matched_student_id = 2

\* the claimant's own template matches the sample and no other student's
\* does: the check returned nothing
C21_WitnessOwnFace ==
    /\ cdone
    /\ Candidates = {}
    /\ MatchedTo(cargs.claiming_student_id)
    /\ students[cargs.claiming_student_id].college_id = cargs.college_id
    /\ cresult = NoDuplicate

\* ------------------------------------------------------------------------
\* Properties of the shared-address check (checked under SpecAddress)
\* ------------------------------------------------------------------------

\* an anomaly_logs row of the address and the session asked about, logged
\* for a student other than the one asked about
SharedAddressRecord(a) ==
    /\ a.ip_address = cargs.ip_address
    /\ a.session_id = cargs.session_id
    /\ a.student_id # 0
    /\ a.student_id # cargs.student_id

\* C22: check_ip_anomaly(address, S, I) returns true exactly when some
\* AnomalyLog record has that ip_address, session S and a student other than
\* I; records of I, of other sessions or of other addresses never make it
\* true.
C22_TrueIffOtherStudentSameAddress ==
    cdone => (cresult <=> \E a \in anomaly_logs : SharedAddressRecord(a))

\* student 2 failed from the address for the session and the check, asked
\* about student 1, returned true
C22_Witness ==
    /\ cdone
    /\ cargs.student_id = 1
    /\ \E a \in anomaly_logs : SharedAddressRecord(a) /\ a.student_id = 2
    /\ cresult = TRUE

\* the table holds records of the student asked about, of another session
\* and of another address, none of another student from the address for the
\* session, and the check returned false
C22_WitnessFalse ==
    /\ cdone
    /\ cargs.student_id = 2
    /\ \E a \in anomaly_logs :
            a.student_id = 2 /\ a.session_id = 1 /\ a.ip_address = "10.0.0.1"
    /\ \E a \in anomaly_logs : a.session_id = 2 /\ a.ip_address = "10.0.0.1"
    /\ \E a \in anomaly_logs : a.session_id = 1 /\ a.ip_address = "10.0.0.2"
    /\ cresult = FALSE

\* another student's successful mark for the session from the address is on
\* record
MarkedFromAddress ==
    \E t \in attendances :
        /\ t.ip_address = cargs.ip_address
        /\ t.session_id = cargs.session_id
        /\ t.student_id # cargs.student_id

\* C30: when another student has successfully marked attendance for session
\* S from address A and no anomaly record with address A exists for S,
\* check_ip_anomaly(A, S, I) returns false: the check reads the anomaly
\* records only, and a successful mark stores its address in the Attendance
\* record.
C30_SuccessfulMarksAreNotSeen ==
    cdone =>
        ((/\ MarkedFromAddress
          /\ ~\E a \in anomaly_logs :
                /\ a.ip_address = cargs.ip_address
                /\ a.session_id = cargs.session_id) => cresult = FALSE)

\* student 2 marked attendance for session 1 from the address, the anomaly
\* table holds rows but none with the address for the session, and the
\* check, asked about student 1, returned false
C30_Witness ==
    /\ cdone
    /\ cargs.student_id = 1
    /\ MarkedFromAddress
    /\ anomaly_logs # {}
    /\ ~\E a \in anomaly_logs :
            a.ip_address = cargs.ip_address /\ a.session_id = cargs.session_id
    /\ cresult = FALSE

\* ------------------------------------------------------------------------
\* Properties of the resolution of anomalies (checked under SpecResolve)
\* ------------------------------------------------------------------------

\* the four columns a resolution writes
Resolution(a) ==
    <<a.is_resolved, a.resolved_by, a.resolution_notes, a.resolved_at>>

\* request r was a resolve of anomaly a and was answered with the row
AnsweredResolved(r, a) ==
    /\ req[r].kind = "resolve_anomaly"
    /\ req[r].anomaly_id = a
    /\ pc[r] \in {"return", "closed"}
    /\ resp[r].exception = None

\* C23: an AnomalyLog record is changed only by the resolve action and is
\* terminal once resolved: after is_resolved has become true no later
\* operation, a second resolve_anomaly on the same record included, changes
\* is_resolved, resolved_by, resolution_notes or resolved_at, and no
\* operation of the anomaly service deletes a record.  Once a resolve of a
\* record has been answered, a later resolve of it is answered with the same
\* resolution.
C23_ResolvedIsTerminal ==
    \A r1, r2 \in {1, 2} :
        \A a \in {1, 2} :
            (AnsweredResolved(r1, a) /\ AnsweredResolved(r2, a)
                /\ r1 \in prior[r2])
                => Resolution(resp[r2].result) = Resolution(resp[r1].result)

\* the parts of C23 that hold: the stored rows are never changed or deleted,
\* a row is added unresolved, no session deletes an anomaly_logs row or takes
\* is_resolved back, and the resolution columns are written by resolve
\* requests only
C23_OnlyResolveChangesARecord ==
    /\ anomaly_logs \in {{}, {SeedAnomaly}}
    /\ \A r \in {1, 2} : \A a \in tx[r].anomaly_logs : ~a.is_resolved
    /\ \A r \in {1, 2} :
            \A w \in WritesOf(r, "anomaly_logs") :
                /\ ~w.deleted
                /\ \E a \in anomaly_logs :
                        /\ a.id = w.id
                        /\ a.is_resolved => w.row.is_resolved
                        /\ Resolution(w.row) # Resolution(a) =>
                                req[r].kind = "resolve_anomaly"

\* anomaly 1 was resolved by user 7, who was answered, and then resolved
\* again by user 8, who was answered with another resolution
C23_ResolvedAgain ==
    /\ AnsweredResolved(1, 1) /\ AnsweredResolved(2, 1)
    /\ 1 \in prior[2]
    /\ resp[1].result.resolved_by = 7
    /\ resp[2].result.resolved_by = 8
    /\ resp[2].result.resolution_notes = "confirmed"

\* ------------------------------------------------------------------------
\* Properties of the enrollment of students (checked under SpecEnroll)
\* ------------------------------------------------------------------------

\* the rows of the students table as the database and as each open session
\* read them
StudentsOnView ==
    { students[i] : i \in DOMAIN students }
    \cup UNION { VisibleStudents(r) : r \in {1, 2} }

\* C25 as stated: after any sequence of student creation, enroll_face,
\* enroll_fingerprint, enroll_id_card and generate_demo_fingerprint, a
\* student's is_enrolled is true exactly when at least one template (face
\* embedding, fingerprint hash or id-document data) is present.
C25_EnrolledIffAnyTemplate ==
    \A row \in StudentsOnView :
        row.is_enrolled <=>
            \/ row.face_embedding
            \/ row.fingerprint_hash
            \/ row.id_card_data

\* C25 amended: after any such sequence is_enrolled is true exactly when the
\* face embedding or the fingerprint hash is present; stored id-document data
\* alone does not make a student enrolled.
C25_EnrolledIffFaceOrFingerprint ==
    \A row \in StudentsOnView :
        row.is_enrolled <=> (row.face_embedding \/ row.fingerprint_hash)

\* enroll_id_card has stored the id-card data of student 3, who has no other
\* template and is not enrolled, and has answered
C25_Witness ==
    \E r \in {1, 2} :
        /\ req[r].kind = "enroll_id_card" /\ req[r].student_id = 3
        /\ pc[r] = "return" /\ resp[r].exception = None
        /\ resp[r].result.http = 200 /\ resp[r].result.id_card_enrolled
        /\ \E row \in VisibleStudents(r) :
                /\ row.id = 3 /\ row.id_card_data
                /\ ~row.face_embedding /\ ~row.fingerprint_hash
                /\ ~row.is_enrolled

\* ------------------------------------------------------------------------
\* Properties of the repeated-failure check (checked under SpecRepeated)
\* ------------------------------------------------------------------------

\* the records that count: same student, same session, type
\* "verification_failed", logged no more than 30 minutes ago
CountedFailures(student_id, session_id) ==
    { a \in anomaly_logs :
        /\ a.student_id = student_id
        /\ a.session_id = session_id
        /\ a.anomaly_type = "verification_failed"
        /\ now - a.attempt_time <= 30 }

\* C20: check_repeated_failures(I,S) returns true if and only if the number
\* of AnomalyLog records with student I, session S, type
\* "verification_failed" and attempt_time within the trailing 30-minute
\* window is at least 3; records for another student, another session,
\* another anomaly type, or older than the window never contribute.
C20_RepeatedFailuresCount ==
    cdone =>
        (cresult <=>
            Cardinality(CountedFailures(cargs.student_id, cargs.session_id)) >= 3)

\* the check returned true on exactly three counted records, one of them
\* exactly 30 minutes old, beside a fourth of the same pair that is older
C20_Witness ==
    /\ cdone
    /\ cresult = TRUE
    /\ Cardinality(CountedFailures(cargs.student_id, cargs.session_id)) = 3
    /\ \E a \in CountedFailures(cargs.student_id, cargs.session_id) :
            now - a.attempt_time = 30
    /\ \E a \in anomaly_logs :
            /\ a.student_id = cargs.student_id
            /\ a.session_id = cargs.session_id
            /\ a.anomaly_type = "verification_failed"
            /\ now - a.attempt_time = 31

\* the check returned false although four records of the pair lie inside the
\* window, two of them of another type
C20_WitnessOtherType ==
    /\ cdone
    /\ cresult = FALSE
    /\ Cardinality({ a \in anomaly_logs :
                        /\ a.student_id = cargs.student_id
                        /\ a.session_id = cargs.session_id
                        /\ now - a.attempt_time <= 30 }) = 4

\* ------------------------------------------------------------------------
\* Properties of the attendance ledger (checked under Spec)
\* ------------------------------------------------------------------------

\* every attendances row the database holds, committed or flushed by an
\* open session
AttendanceStore ==
    attendances \cup UNION { tx[r].attendances : r \in Requests }

RecordsFor(student_id, session_id) ==
    { row \in AttendanceStore :
        row.student_id = student_id /\ row.session_id = session_id }

\* request r was a mark that verified and inserted its Attendance row
MarkedSuccessfully(r) ==
    /\ req[r].kind = "mark"
    /\ pc[r] \in {"return", "closed"}
    /\ resp[r].result.success
    /\ resp[r].attendance # 0

\* mark_attendance of request r has ended
MarkEnded(r) ==
    /\ req[r].kind = "mark"
    /\ pc[r] \in {"return", "raise", "closed"}

SamePair(r1, r2) ==
    /\ req[r1].student_id = req[r2].student_id
    /\ req[r1].session_id = req[r2].session_id

AlreadyMarked(r) ==
    /\ resp[r].attendance = 0
    /\ resp[r].result.message = "Attendance already marked for this session"

\* C1: after a first successful mark for (I,S) exactly one Attendance record
\* for (I,S) exists, and every later mark request for (I,S) is rejected as
\* already marked and leaves the number of records for (I,S) at one.
C1_MarkIsIdempotent ==
    \A r1 \in Requests :
        MarkedSuccessfully(r1) =>
            /\ Cardinality(RecordsFor(req[r1].student_id, req[r1].session_id)) = 1
            /\ \A r2 \in Requests :
                (r1 \in prior[r2] /\ MarkEnded(r2) /\ SamePair(r1, r2)) =>
                    AlreadyMarked(r2)

\* C2: in every state of the attendance store there is at most one
\* Attendance record for each (student_id, session_id) pair.
C2_OneRecordPerPair ==
    \A a, b \in AttendanceStore :
        (a.student_id = b.student_id /\ a.session_id = b.session_id) => a = b

\* one mark has flushed its row while a second mark for the same pair, past
\* the existing-record check, is about to insert
C2_Witness ==
    \E r1, r2 \in Requests :
        /\ r1 # r2
        /\ tx[r1].attendances # {}
        /\ pc[r2] = "insert"
        /\ SamePair(r1, r2)

\* C3: when two marks for the same pair both pass the existing-record check
\* before either inserts, exactly one of them inserts the record and the
\* other one ends with the already-marked rejection.
C3_RaceHasOneWinner ==
    \A r1, r2 \in Requests :
        (r1 # r2 /\ r2 \in raced[r1] /\ MarkEnded(r1) /\ MarkEnded(r2)) =>
            \/ resp[r1].attendance # 0 /\ AlreadyMarked(r2)
            \/ resp[r2].attendance # 0 /\ AlreadyMarked(r1)

\* mark_attendance of request r called verify_student
ReachedVerification(r) ==
    /\ req[r].kind = "mark"
    /\ resp[r].result.verification_method # DefaultResult.verification_method

\* the anomaly_logs rows a request arriving now can read
DurableAnomalies(student_id, session_id, anomaly_type) ==
    { a \in anomaly_logs :
        /\ a.student_id = student_id
        /\ a.session_id = session_id
        /\ a.anomaly_type = anomaly_type }

\* C13: every mark_attendance attempt that reaches verification and gets
\* success=false inserts no Attendance record, raises no exception, and leaves
\* a durable AnomalyLog record of type "verification_failed" for that
\* (student, session) that later requests can read.
C13_FailureLeavesDurableAnomaly ==
    \A r \in Requests :
        (pc[r] = "closed" /\ ReachedVerification(r) /\ ~resp[r].result.success) =>
            /\ resp[r].attendance = 0
            /\ resp[r].exception = None
            /\ DurableAnomalies(req[r].student_id, req[r].session_id,
                                "verification_failed") # {}

\* the Attendance rows request r has inserted
InsertedBy(r) == tx[r].attendances

\* the Attendance row carries the verification result of request r
CarriesResult(row, r) ==
    /\ row.status = "present"
    /\ row.overall_confidence = resp[r].result.overall_confidence
    /\ row.verification_method = resp[r].result.verification_method
    /\ row.face_confidence =
            IF "face" \in loc[r].invoked THEN resp[r].result.face_confidence
            ELSE NullFloat
    /\ row.id_card_confidence =
            IF "id_card" \in loc[r].invoked
            THEN resp[r].result.id_card_confidence ELSE NullFloat
    /\ row.fingerprint_match = resp[r].result.fingerprint_verified

\* C14: every mark_attendance attempt whose verification result has
\* success=true inserts exactly one Attendance record for the claimed
\* (student, session) with status present, carrying the result's
\* overall_confidence, verification_method and per-factor confidences (NULL
\* for a factor that was not run), and inserts it only after the verification
\* result has been computed.
C14_SuccessInsertsOneRecord ==
    \A r \in Requests :
        /\ (pc[r] = "return" /\ ReachedVerification(r) /\ resp[r].result.success) =>
                /\ Cardinality(InsertedBy(r)) = 1
                /\ \A row \in InsertedBy(r) :
                        /\ row.id = resp[r].attendance
                        /\ row.student_id = req[r].student_id
                        /\ row.session_id = req[r].session_id
                        /\ CarriesResult(row, r)
        /\ InsertedBy(r) # {} =>
                /\ ReachedVerification(r)
                /\ resp[r].result.success
                /\ pc[r] = "return"

\* a mark for student 1 and session 1 with a matching face has verified with
\* overall confidence 0.46 and inserted its row
C14_Witness ==
    \E r \in Requests :
        /\ pc[r] = "return"
        /\ req[r].student_id = 1 /\ req[r].session_id = 1
        /\ resp[r].result.success
        /\ resp[r].result.overall_confidence = TenThousandths(4600)
        /\ \E row \in InsertedBy(r) :
                /\ row.overall_confidence = TenThousandths(4600)
                /\ row.face_confidence = Hundredths(92)
                /\ row.verification_method = "face"

\* the reasons for which mark_attendance rejects a known student's attempt
\* for a known session, read from the committed tables
SessionNotActive(r) == ~sessions[req[r].session_id].is_active
AttendanceOnRecord(r) ==
    \E row \in attendances :
        row.student_id = req[r].student_id /\ row.session_id = req[r].session_id
StudentNotEnrolled(r) == ~students[req[r].student_id].is_enrolled

MustBeRejected(r) ==
    /\ req[r].kind = "mark"
    /\ req[r].student_id \in DOMAIN students
    /\ req[r].session_id \in DOMAIN sessions
    /\ SessionNotActive(r) \/ AttendanceOnRecord(r) \/ StudentNotEnrolled(r)

RejectionMessages ==
    { "Session is not active for attendance marking",
      "Attendance already marked for this session",
      "Student biometrics not enrolled. Please complete enrollment first." }

\* C15: when mark_attendance rejects an attempt because the session is not
\* active, because attendance is already marked, or because the student is
\* not enrolled, it does so before any factor comparator is invoked and it
\* creates neither an Attendance record nor an AnomalyLog record: the stores
\* are unchanged by the rejected attempt.
C15_RejectionTouchesNothing ==
    \A r \in Requests :
        MustBeRejected(r) =>
            /\ loc[r].invoked = {}
            /\ tx[r] = EmptyTx
            /\ MarkEnded(r) =>
                    /\ resp[r].result.message \in RejectionMessages
                    /\ ~resp[r].result.success
                    /\ resp[r].attendance = 0
                    /\ resp[r].exception = None

\* an attempt for a student who is not enrolled, sent with an id-card image,
\* has been rejected
C15_Witness ==
    \E r \in Requests :
        /\ pc[r] = "return"
        /\ req[r].factors = DocumentOnly
        /\ MustBeRejected(r)
        /\ resp[r].result.message =
              "Student biometrics not enrolled. Please complete enrollment first."

\* ------------------------------------------------------------------------
\* Properties of two requests side by side (checked under SpecSessions)
\* ------------------------------------------------------------------------

\* request r is a status update whose handler has ended
UpdateEnded(r) == req[r].kind = "update" /\ pc[r] \in {"return", "raise"}

\* the attendances row of the id request r names, as it is stored
Named(r) == { row \in attendances : row.id = req[r].attendance_id }

\* request r's session reads the rows `expected` and has flushed nothing
\* but an UPDATE of the row it names
UpdateLeaves(r, expected) ==
    /\ VisibleAttendances(r) = expected
    /\ tx[r].attendances = {} /\ tx[r].anomaly_logs = {}
    /\ tx[r].row_writes = {}
    /\ \A u \in tx[r].status_updates : u.id = req[r].attendance_id
    /\ Named(r) = {} =>
            /\ tx[r] = EmptyTx
            /\ resp[r].exception = "HTTPException 404"

\* the named row with the status of the request and nothing else changed
StatusOnly(r, row) == [row EXCEPT !.status = req[r].status]

\* the named row with the status of the request and, when that is a new
\* status, updated_at at the time of the UPDATE; nothing else changed
StatusAndTimestamp(r, row) ==
    [row EXCEPT !.status = req[r].status,
                !.updated_at = IF req[r].status # row.status THEN now ELSE @]

\* C24 as stated: update_attendance_status changes only the status field of
\* the one record it names: student_id, session_id, the confidences and
\* verification_method of that record and every other record are unchanged,
\* no record is added or removed, and when the id does not exist nothing is
\* changed.
C24_UpdateChangesStatusOnly ==
    \A r \in Requests :
        UpdateEnded(r) =>
            UpdateLeaves(r, { IF row \in Named(r) THEN StatusOnly(r, row)
                              ELSE row : row \in attendances })

\* C24 amended: update_attendance_status changes the status field of the one
\* record it names and, when the status is a new one, that record's
\* updated_at, which becomes the time of the change, and nothing else:
\* student_id, session_id, the confidences and verification_method of that
\* record and every other record are unchanged, no record is added or
\* removed, and when the id does not exist nothing is changed.
C24_UpdateChangesStatusAndTimestamp ==
    \A r \in Requests :
        UpdateEnded(r) =>
            UpdateLeaves(r, { IF row \in Named(r)
                              THEN StatusAndTimestamp(r, row)
                              ELSE row : row \in attendances })

\* a request set the seeded record, stored as "present", to "absent": its
\* session sees that record with the new status and the new updated_at
C24_Witness ==
    \E r \in Requests :
        /\ UpdateEnded(r) /\ pc[r] = "return"
        /\ req[r].status = "absent"
        /\ SeedAttendance \in Named(r)
        /\ now # SeedAttendance.updated_at
        /\ [SeedAttendance EXCEPT !.status = "absent", !.updated_at = now]
                \in VisibleAttendances(r)

\* a request sent the seeded record the status it has: nothing was flushed
\* and updated_at is as stored
C24_WitnessSameStatus ==
    \E r \in Requests :
        /\ UpdateEnded(r) /\ pc[r] = "return"
        /\ req[r].status = SeedAttendance.status
        /\ SeedAttendance \in Named(r)
        /\ SeedAttendance \in VisibleAttendances(r)
        /\ tx[r] = EmptyTx

\* a request named an id that does not exist and was answered 404
C24_WitnessNotFound ==
    \E r \in Requests :
        /\ UpdateEnded(r) /\ pc[r] = "raise"
        /\ Named(r) = {}
        /\ attendances # {}

\* the row is for the pair request r claims
ForClaimedPair(row, r) ==
    row.student_id = req[r].student_id /\ row.session_id = req[r].session_id

\* C29: each mark_attendance call adds at most one record in total and never
\* both kinds: exactly one Attendance record when verification succeeds,
\* exactly one AnomalyLog record of type "verification_failed" with severity
\* "medium" for the claimed pair when verification fails, and nothing when
\* the attempt is rejected before verification; it never modifies or removes
\* an existing Attendance or AnomalyLog record.
C29_MarkAddsAtMostOneRecord ==
    \A r \in Requests :
        req[r].kind = "mark" =>
            /\ Cardinality(tx[r].attendances) + Cardinality(tx[r].anomaly_logs) <= 1
            /\ \A row \in tx[r].attendances \cup tx[r].anomaly_logs :
                    ForClaimedPair(row, r)
            /\ \A a \in tx[r].anomaly_logs :
                    a.anomaly_type = "verification_failed" /\ a.severity = "medium"
            /\ tx[r].status_updates = {} /\ tx[r].row_writes = {}
            /\ attendances \subseteq VisibleAttendances(r)
            /\ pc[r] = "return" =>
                    IF ~ReachedVerification(r)
                    THEN tx[r] = EmptyTx
                    ELSE IF resp[r].result.success
                    THEN /\ Cardinality(tx[r].attendances) = 1
                         /\ tx[r].anomaly_logs = {}
                    ELSE /\ Cardinality(tx[r].anomaly_logs) = 1
                         /\ tx[r].attendances = {}

\* an attempt with a face and a fingerprint token that does not match has
\* failed and added one anomaly record and no Attendance record, beside the
\* record of another pair
C29_Witness ==
    \E r \in Requests :
        /\ pc[r] = "return" /\ req[r].kind = "mark"
        /\ ReachedVerification(r) /\ ~resp[r].result.success
        /\ req[r].factors = FaceAndWrongFingerprint
        /\ Cardinality(tx[r].anomaly_logs) = 1
        /\ tx[r].attendances = {}
        /\ SeedAttendance \in attendances

\* an attempt has succeeded and added one Attendance record and no anomaly
C29_WitnessSuccess ==
    \E r \in Requests :
        /\ pc[r] = "return" /\ req[r].kind = "mark"
        /\ ReachedVerification(r) /\ resp[r].result.success
        /\ Cardinality(tx[r].attendances) = 1
        /\ tx[r].anomaly_logs = {}

\* request d set is_active of session s to false and was answered 200
DeactivatedBy(d, s) ==
    /\ req[d].kind \in {"activate_session", "update_session"}
    /\ req[d].session_id = s
    /\ req[d].sets_is_active /\ ~req[d].is_active
    /\ pc[d] \in {"return", "closed"}

\* the step is the insert of request r's Attendance record
InsertStep(r) ==
    /\ req[r].kind = "mark"
    /\ pc[r] = "insert"
    /\ tx'[r].attendances # tx[r].attendances

\* C26: no Attendance record is inserted for a session that is inactive at
\* the moment of the insert, under any interleaving of mark_attendance with
\* activate_session or update_session requests that deactivate the session:
\* once such a request has been answered, no mark inserts a record for it.
C26_NoInsertForInactiveSession ==
    [][ \A r \in {1, 2} :
            InsertStep(r) =>
                ~\E d \in {1, 2} \ {r} : DeactivatedBy(d, req[r].session_id) ]_vars

\* what does hold: at the insert the sessions row as it is stored says
\* is_active, because no session request's UPDATE is ever committed
C26_StoredSessionActiveAtInsert ==
    [][ \A r \in {1, 2} :
            InsertStep(r) => sessions[req[r].session_id].is_active ]_vars

\* a request deactivated session 1 and was answered, and a mark request has
\* then inserted an Attendance record for session 1
C26_InsertedAfterDeactivation ==
    \E r, d \in {1, 2} :
        /\ r # d
        /\ DeactivatedBy(d, 1)
        /\ req[r].kind = "mark" /\ req[r].session_id = 1
        /\ tx[r].attendances # {}

\* ------------------------------------------------------------------------
\* Properties of one mark attempt for any pair (checked under SpecAnyPair)
\* ------------------------------------------------------------------------

\* the rejections that apply to request r, in the order student not found,
\* session not found, session not active, already marked, not enrolled
ApplicableRejections(r) ==
    (IF req[r].student_id \notin DOMAIN students
     THEN <<"Student not found">> ELSE <<>>)
    \o (IF req[r].session_id \notin DOMAIN sessions
        THEN <<"Session not found">> ELSE <<>>)
    \o (IF /\ req[r].session_id \in DOMAIN sessions
           /\ ~sessions[req[r].session_id].is_active
        THEN <<"Session is not active for attendance marking">> ELSE <<>>)
    \o (IF \E row \in attendances : /\ row.student_id = req[r].student_id
                                    /\ row.session_id = req[r].session_id
        THEN <<"Attendance already marked for this session">> ELSE <<>>)
    \o (IF /\ req[r].student_id \in DOMAIN students
           /\ ~students[req[r].student_id].is_enrolled
        THEN <<"Student biometrics not enrolled. Please complete enrollment first.">>
        ELSE <<>>)

\* C28: mark_attendance evaluates its rejections in the fixed order student
\* not found, session not found, session not active, already marked, not
\* enrolled, and reports only the first that applies: for a pair that already
\* has a record in a session that is no longer active the answer is
\* session-not-active, not already-marked.
C28_FirstApplicableRejection ==
    \A r \in Requests :
        (MarkEnded(r) /\ ApplicableRejections(r) # <<>>) =>
            /\ resp[r].result.message = Head(ApplicableRejections(r))
            /\ ~resp[r].result.success
            /\ resp[r].attendance = 0

\* student 1 has a record for session 2, which is not active: the attempt was
\* answered "Session is not active"
C28_Witness ==
    \E r \in Requests :
        /\ MarkEnded(r)
        /\ req[r].student_id = 1 /\ req[r].session_id = 2
        /\ \E row \in attendances : row.student_id = 1 /\ row.session_id = 2
        /\ Len(ApplicableRejections(r)) = 2
        /\ resp[r].result.message = "Session is not active for attendance marking"

\* neither the student nor the session exists: the attempt was answered
\* "Student not found"
C28_WitnessNothingExists ==
    \E r \in Requests :
        /\ MarkEnded(r)
        /\ req[r].student_id = 4 /\ req[r].session_id = 3
        /\ resp[r].result.message = "Student not found"

\* ------------------------------------------------------------------------
\* Properties of a mark attempt after three failures (checked under
\* SpecThrottle)
\* ------------------------------------------------------------------------

\* three failed attempts of the request's student for its session are on
\* record inside the window
ThreeFailuresOnRecord(r) ==
    /\ req[r].kind = "mark"
    /\ Cardinality(CountedFailures(req[r].student_id, req[r].session_id))
            >= max_failed_attempts

\* C16: with max_failed_attempts=3 and a 30-minute window, after three failed
\* mark attempts for (I,S) inside the window a fourth mark attempt for (I,S)
\* is blocked before verification, whatever factors it supplies; a failed
\* attempt older than the window does not count toward the three.
C16_FourthAttemptBlocked ==
    \A r \in Requests :
        (ThreeFailuresOnRecord(r) /\ MarkEnded(r)) =>
            /\ loc[r].invoked = {}
            /\ ~resp[r].result.success
            /\ resp[r].attendance = 0

====
